---- MODULE Spec2Model ----
(***************************************************************************)
(* Zentel: the asynchronous content-analysis pipeline.                     *)
(*                                                                         *)
(*   - the analysis job state machine (run_analysis) with the per-job      *)
(*     SQLAlchemy session, the create / reanalyze endpoints that schedule  *)
(*     jobs, and the SSE events a job broadcasts;                          *)
(*   - the SSE subscriber registry shared by job threads and streams;      *)
(*   - the browser sessions opened by the content fetchers.                *)
(*                                                                         *)
(* Python None is the string "None"; an exception is a record              *)
(* [type, msg] and str(e) is its msg.                                      *)
(***************************************************************************)
EXTENDS Integers, Sequences, FiniteSets, TLC

VARIABLES
    db,          \* temp_memos table: memo id -> committed row
    users,       \* users table: user id -> row
    jobs,        \* background analysis tasks: job id -> task state
    http,        \* the last HTTP response of the memo endpoints
    sse_queues,  \* _sse_queues: client id -> asyncio.Queue contents
    streams,     \* analysis_events connections: client id -> stream state
    pubs,        \* threads inside _broadcast_sse_event
    fetchers,    \* fetch tasks of concurrently running jobs
    sem_value,   \* twitter_scraper._semaphore._value
    browsers,    \* number of launched, not yet closed browsers
    call         \* the call of a text or URL function: arguments, locals, result

jobVars == <<db, users, jobs, http>>
hubVars == <<sse_queues, streams, pubs>>
brVars  == <<fetchers, sem_value, browsers>>
vars    == <<db, users, jobs, http, sse_queues, streams, pubs,
             fetchers, sem_value, browsers, call>>

None == "None"

\* no function call is in progress
NoCall == [fn |-> "none"]

(***************************************************************************)
(* Bounds of the model.                                                    *)
(***************************************************************************)
MaxJobs == 2        \* background tasks scheduled in one behaviour
MaxFetchers == 3    \* fetches running at the same time

(***************************************************************************)
(* Program constants.                                                      *)
(***************************************************************************)
MAX_CONCURRENT_REQUESTS == 2
retry_count == 3
\* the delays in the opposite order
C22_retry_delays_reversed == <<5, 3, 1>>

\* "retry_delays = [1, 3, 5]"
retry_delays == <<1, 3, 5>>

JobIds == 1 .. MaxJobs
MEMO == "tm_1"
USER == "user_1"

MemoTypes == {"EXTERNAL_SOURCE", "NEW_IDEA"}

TWITTER_URL == "https://x.com/u/status/1"
YOUTUBE_URL == "https://youtu.be/abc"
GENERIC_URL == "https://example.com/a"
Urls == {TWITTER_URL, YOUTUBE_URL, GENERIC_URL}

\* urlparse(url).netloc.lower() on the URLs of the model
netloc(url) ==
    CASE url = TWITTER_URL -> "x.com"
      [] url = YOUTUBE_URL -> "youtu.be"
      [] url = GENERIC_URL -> "example.com"
      [] OTHER -> ""

TWITTER_DOMAINS == {"twitter.com", "x.com", "www.twitter.com", "www.x.com",
                    "mobile.twitter.com", "mobile.x.com"}
YOUTUBE_DOMAINS == {"youtube.com", "www.youtube.com", "m.youtube.com",
                    "youtu.be", "www.youtu.be"}

is_twitter_url(url) == netloc(url) \in TWITTER_DOMAINS
is_youtube_url(url) == netloc(url) \in YOUTUBE_DOMAINS

(***************************************************************************)
(* SSE events and the broadcast to every registered queue.                 *)
(***************************************************************************)
ProgressEvent(memo_id, step) ==
    [event_type |-> "progress", memo_id |-> memo_id, step |-> step,
     status |-> None, error |-> None]

\* notify_analysis_complete: the error key is present only when error is truthy
CompleteEvent(memo_id, status, error) ==
    [event_type |-> "complete", memo_id |-> memo_id, step |-> None,
     status |-> status,
     error |-> IF error # None /\ error # "" THEN error ELSE None]

\* _broadcast_sse_event run to its end by one caller: every registered queue
\* gets the event appended
Broadcast(queues, ev) == [c \in DOMAIN queues |-> Append(queues[c], ev)]

RECURSIVE BroadcastSeq(_, _)
BroadcastSeq(queues, evs) ==
    IF evs = <<>> THEN queues
    ELSE BroadcastSeq(Broadcast(queues, Head(evs)), Tail(evs))

Steps(memo_id, steps) == [i \in 1 .. Len(steps) |-> ProgressEvent(memo_id, steps[i])]

(***************************************************************************)
(* The ORM session of a job: the row as loaded, and the flush that writes  *)
(* only the attributes whose value differs from the loaded one.            *)
(***************************************************************************)
\* dirty holds the attributes of the memo object that _do_analysis assigned
\* since the last commit
ExpiredState == [expired |-> TRUE, analysis_status |-> None, analysis_error |-> None,
                 dirty |-> {}]

Load(row) == [expired |-> FALSE,
              analysis_status |-> row.analysis_status,
              analysis_error |-> row.analysis_error,
              dirty |-> {}]

\* the columns _do_analysis and _process_translation_and_highlights assign
\* (lines 347-356, 415-422); a new row has their defaults, NULL (False for
\* is_summary), written None here
ResultFields == {"context", "interests", "og_title", "og_image", "fetched_content",
                 "original_language", "translated_content", "is_summary",
                 "highlights", "display_content"}

NoResults == [f \in ResultFields |-> None]

\* the value an attempt assigned to an attribute of the memo object
Computed == "computed"

\* the UPDATE of db.commit() after memo.analysis_status = st; memo.analysis_error = err:
\* these two as far as they changed, and every attribute assigned before
Flush(row, loaded, st, err) ==
    [row EXCEPT
       !.analysis_status = IF loaded.expired \/ loaded.analysis_status # st
                           THEN st ELSE @,
       !.analysis_error  = IF loaded.expired \/ loaded.analysis_error # err
                           THEN err ELSE @,
       !.results = [f \in ResultFields |-> IF f \in loaded.dirty
                                           THEN Computed ELSE @[f]]]

IdleJob == [pc |-> "idle", memo_id |-> None, user_id |-> None, attempt |-> 0,
            loaded |-> ExpiredState, nraised |-> 0,
            clean |-> FALSE, delays |-> <<>>, final |-> None, bypass_failed |-> FALSE]

FreeJobs == {j \in JobIds : jobs[j].pc = "idle"}

\* background_tasks.add_task(_run_background_analysis, memo_id, user_id, ...)
AddTask(js, memo_id, user_id) ==
    LET j == CHOOSE k \in {i \in JobIds : js[i].pc = "idle"} :
                 \A i \in {i \in JobIds : js[i].pc = "idle"} : k <= i
    IN [js EXCEPT ![j] = [IdleJob EXCEPT !.pc = "scheduled",
                                         !.memo_id = memo_id,
                                         !.user_id = user_id]]

(***************************************************************************)
(* The response of a memo endpoint: the operation, the authenticated user, *)
(* the memo id of the path, the status code and the ids of the memos in    *)
(* the body.                                                               *)
(***************************************************************************)
Response(op, current_user, memo_id, force, code, body) ==
    [op |-> op, user |-> current_user, memo_id |-> memo_id, force |-> force,
     code |-> code, body |-> body]

NoResponse == Response("none", None, None, FALSE, 0, {})

\* MemoRepository.get_by_id: the lookup that does not look at the owner
C21_get_by_id(rows, memo_id, user_id) ==
    IF memo_id \in DOMAIN rows THEN memo_id ELSE None

\* MemoRepository.get_user_memo: the row with this id and this owner, or None
get_user_memo(rows, memo_id, user_id) ==
    IF memo_id \in DOMAIN rows /\ rows[memo_id].user_id = user_id
    THEN memo_id ELSE None

(***************************************************************************)
(* POST /temp-memos                                                        *)
(***************************************************************************)
create_temp_memo(memo_type, source_url, content_url) ==
    /\ MEMO \notin DOMAIN db
    /\ FreeJobs # {}
    /\ LET url == IF memo_type = "EXTERNAL_SOURCE" /\ source_url = None
                  THEN content_url ELSE source_url
           row == [user_id |-> USER, memo_type |-> memo_type, source_url |-> url,
                   analysis_status |-> "pending", analysis_error |-> None,
                   summary |-> None, updated_at |-> None, results |-> NoResults]
       IN /\ db' = [m \in DOMAIN db \cup {MEMO} |-> IF m = MEMO THEN row ELSE db[m]]
          /\ jobs' = AddTask(jobs, MEMO, USER)
          /\ http' = Response("create", USER, MEMO, FALSE, 201, {MEMO})
    /\ UNCHANGED <<users, hubVars, brVars, call>>

(***************************************************************************)
(* POST /temp-memos/{memo_id}/reanalyze                                    *)
(***************************************************************************)
\* a guard that rejects whatever force says
C2_Reject_ignoring_force(force, status) == status = "analyzing"

\* "if not force and db_memo.analysis_status == 'analyzing'": HTTP 400
RejectReanalyze(force, status) == ~force /\ status = "analyzing"

reanalyze_memo(current_user, memo_id, force) ==
    /\ IF get_user_memo(db, memo_id, current_user) = None
       THEN \* get_user_memo raises 404
            /\ http' = Response("reanalyze", current_user, memo_id, force, 404, {})
            /\ UNCHANGED <<db, jobs>>
       ELSE IF RejectReanalyze(force, db[memo_id].analysis_status)
       THEN /\ http' = Response("reanalyze", current_user, memo_id, force, 400, {})
            /\ UNCHANGED <<db, jobs>>
       ELSE /\ FreeJobs # {}
            /\ db' = [db EXCEPT ![memo_id] = Flush(@, Load(@), "pending", None)]
            /\ jobs' = AddTask(jobs, memo_id, current_user)
            /\ http' = Response("reanalyze", current_user, memo_id, force, 200,
                                {memo_id})
    /\ UNCHANGED <<users, hubVars, brVars, call>>

(***************************************************************************)
(* AnalysisService.run_analysis, one background thread per job.            *)
(***************************************************************************)
\* "datetime.now(timezone.utc).isoformat()" at the end of a run: a time later
\* than every time stored before
UtcNow == "utc_now"

\* the commit of the final status with the message of the run's first
\* exception in place of the last one's
C23_FlushFinal_first_error(row, loaded, st, err) ==
    [Flush(row, loaded, st, err) EXCEPT
                !.analysis_status = st,
                !.analysis_error = IF err # None /\ call.errors # <<>>
                                   THEN call.errors[1] ELSE err,
                !.updated_at = UtcNow]

\* the commit of the final status (lines 148-151, 173-176): status and error
\* as far as they changed, and updated_at
FlushFinal(row, loaded, st, err) ==
    [Flush(row, loaded, st, err) EXCEPT !.updated_at = UtcNow]

\* a str that loses the message of the exception
C1_str_empty(e) == ""

str(e) == e.msg

LLMError == [type |-> "LLMError", msg |-> "[LLM] call failed"]
UnpackError == [type |-> "ValueError", msg |-> "too many values to unpack (expected 2)"]
NoAttributeError ==
    [type |-> "AttributeError",
     msg |-> "'ContextExtractor' object has no attribute 'translate_and_highlight'"]
SemaphoreLoopError ==
    [type |-> "RuntimeError", msg |-> "Semaphore is bound to a different event loop"]

Truthy(x) == x # None /\ x # ""

\* the comparison one too far: the last attempt sleeps as well
C6_WillRetry_off_by_one(attempt) == attempt < retry_count

\* "if attempt < retry_count - 1": sleep and retry, else mark the job failed
WillRetry(attempt) == attempt < retry_count - 1

\* lines 128-131: the job's session loads the memo
JobQuery(j) ==
    /\ jobs[j].pc = "scheduled"
    /\ IF jobs[j].memo_id \notin DOMAIN db
       THEN jobs' = [jobs EXCEPT ![j].pc = "done"]
       ELSE jobs' = [jobs EXCEPT ![j].pc = "loaded",
                                 ![j].loaded = Load(db[jobs[j].memo_id])]
    /\ UNCHANGED <<db, users, http, hubVars, brVars, call>>

\* lines 133-138: status 'analyzing', error cleared, commit, "start" event
JobMarkAnalyzing(j) ==
    /\ jobs[j].pc = "loaded"
    /\ LET m == jobs[j].memo_id
       IN /\ db' = [db EXCEPT ![m] = Flush(@, jobs[j].loaded, "analyzing", None)]
          /\ jobs' = [jobs EXCEPT ![j].pc = "fetch", ![j].loaded = ExpiredState]
          /\ sse_queues' = Broadcast(sse_queues, ProgressEvent(m, "start"))
    /\ UNCHANGED <<users, http, streams, pubs, brVars, call>>

\* the complete event sent from every except branch instead of the last one
C10_AttemptRaised_notify_each(j, e, evs, ld, cl, bf) ==
    LET job == jobs[j]
        m == job.memo_id
    IN IF WillRetry(job.attempt)
       THEN /\ jobs' = [jobs EXCEPT ![j] =
                          [job EXCEPT !.pc = "attempt", !.attempt = @ + 1,
                                      !.nraised = @ + 1, !.loaded = ld,
                                      !.clean = cl,
                                      !.delays = Append(@, retry_delays[job.attempt + 1])]]
            /\ db' = db
            /\ sse_queues' = BroadcastSeq(sse_queues,
                                 Append(evs, CompleteEvent(m, "failed", str(e))))
       ELSE /\ db' = [db EXCEPT ![m] = FlushFinal(@, ld, "failed", str(e))]
            /\ jobs' = [jobs EXCEPT ![j] =
                          [job EXCEPT !.pc = "done", !.nraised = @ + 1,
                                      !.loaded = ExpiredState,
                                      !.clean = cl, !.bypass_failed = bf,
                                      !.final = "failed"]]
            /\ sse_queues' = BroadcastSeq(sse_queues,
                                 Append(evs, CompleteEvent(m, "failed", str(e))))

\* the except branch of the retry loop (lines 159-181); evs are the progress
\* events the attempt broadcast before it raised, ld the session's loaded row,
\* cl whether some attempt so far had its fetch and its LLM call return, bf
\* whether the bypass gave up in the last attempt of the run
AttemptRaised(j, e, evs, ld, cl, bf) ==
    LET job == jobs[j]
        m == job.memo_id
    IN IF WillRetry(job.attempt)
       THEN \* asyncio.sleep(retry_delays[attempt]), then the next round of
            \* "for attempt in range(retry_count)", if there is one
            /\ jobs' = [jobs EXCEPT ![j] =
                          [job EXCEPT !.pc = IF job.attempt + 1 < retry_count
                                             THEN "attempt" ELSE "done",
                                      !.attempt = @ + 1,
                                      !.nraised = @ + 1, !.loaded = ld,
                                      !.clean = cl,
                                      !.delays = Append(@, retry_delays[job.attempt + 1])]]
            /\ db' = db
            /\ sse_queues' = BroadcastSeq(sse_queues, evs)
       ELSE /\ db' = [db EXCEPT ![m] = FlushFinal(@, ld, "failed", str(e))]
            /\ jobs' = [jobs EXCEPT ![j] =
                          [job EXCEPT !.pc = "done", !.nraised = @ + 1,
                                      !.loaded = ExpiredState,
                                      !.clean = cl, !.bypass_failed = bf,
                                      !.final = "failed"]]
            /\ sse_queues' = BroadcastSeq(sse_queues,
                                 Append(evs, CompleteEvent(m, "failed", str(e))))

\* lines 147-157: the attempt returned
AttemptReturned(j, evs, ld, cl, bf) ==
    LET job == jobs[j]
        m == job.memo_id
    IN /\ db' = [db EXCEPT ![m] = FlushFinal(@, ld, "completed", None)]
       /\ jobs' = [jobs EXCEPT ![j] =
                     [job EXCEPT !.pc = "done", !.loaded = ExpiredState,
                                 !.clean = cl, !.bypass_failed = bf,
                                 !.final = "completed"]]
       /\ sse_queues' = BroadcastSeq(sse_queues,
                            Append(evs, CompleteEvent(m, "completed", None)))

\* fetch_with_cloudflare_bypass(url, max_retries=3): first_ok is the first of
\* the max_retries browser sessions that gets past the challenge, 0 if none does
max_retries == 3

CloudflareBypass(first_ok) ==
    IF first_ok \in 1 .. max_retries
    THEN [html |-> "html", success |-> TRUE]
    ELSE [html |-> None, success |-> FALSE]

\* _fetch_html_content: the content returned for what the site answers.
\*   page:     "error" (the GET raises), "blocked" (403 + Cloudflare signature),
\*             "content" / "short" / "empty" (what extract_text_from_html gives)
\*   rendered: fetch_with_playwright: "none" (it failed), "blocked",
\*             "content" / "short" / "empty"
\* bypass is "failed" when the bypass was tried and gave up, "ok" when it got
\* through, "none" when it was not tried.
Extracted(kind) == IF kind = "empty" THEN None ELSE kind

\* the longer of two extracted texts ("content" is at least MIN_CONTENT_LENGTH
\* characters, "short" is fewer, "empty" is none)
Longer(rendered, page) ==
    IF rendered = "content" \/ page = "empty" THEN rendered ELSE page

FetchHtmlContent(page, rendered, first_ok, bypassed) ==
    IF page = "error" THEN [content |-> None, bypass |-> "none"]
    ELSE IF page = "blocked"
    THEN IF CloudflareBypass(first_ok).success
         THEN [content |-> Extracted(bypassed), bypass |-> "ok"]
         ELSE [content |-> None, bypass |-> "failed"]
    ELSE IF page = "content" \/ rendered = "none"
    THEN [content |-> Extracted(page), bypass |-> "none"]
    ELSE IF rendered = "blocked"
    THEN IF CloudflareBypass(first_ok).success
         THEN [content |-> Extracted(Longer(bypassed, page)), bypass |-> "ok"]
         ELSE [content |-> None, bypass |-> "failed"]
    ELSE [content |-> Extracted(Longer(rendered, page)), bypass |-> "none"]

\* What the fetcher for the memo's URL can answer:
\* [raises, success, content, bypass]
\* TwitterScraper.scrape: the result of one of its four methods, or the
\* semaphore of another job's event loop raises
TwitterOutcomes ==
    {[raises |-> TRUE, success |-> FALSE, content |-> None, bypass |-> "none"]}
    \cup {[raises |-> FALSE, success |-> TRUE, content |-> c, bypass |-> "none"] :
            c \in {"content", "short"}}
    \cup {[raises |-> FALSE, success |-> FALSE, content |-> "", bypass |-> "none"]}

\* YouTubeScraper.scrape never raises
YoutubeOutcomes ==
    {[raises |-> FALSE, success |-> TRUE, content |-> "content", bypass |-> "none"],
     [raises |-> FALSE, success |-> FALSE, content |-> "", bypass |-> "none"]}

\* fetch_url_content over everything the site can answer
HtmlOutcomes ==
    {LET r == FetchHtmlContent(page, rendered, first_ok, bypassed)
     IN [raises |-> FALSE, success |-> Truthy(r.content),
         content |-> r.content, bypass |-> r.bypass] :
       page \in {"error", "blocked", "content", "short", "empty"},
       rendered \in {"none", "blocked", "content", "short", "empty"},
       first_ok \in 0 .. max_retries,
       bypassed \in {"content", "short", "empty"}}

FetchOutcomes(url) ==
    IF is_twitter_url(url) THEN TwitterOutcomes
    ELSE IF is_youtube_url(url) THEN YoutubeOutcomes
    ELSE HtmlOutcomes

\* The job's session reads the memo again at the first attribute access after
\* the commit of lines 133-135 expired it ("memo.source_url", line 193)
JobReload(j) ==
    /\ jobs[j].pc = "fetch"
    /\ jobs' = [jobs EXCEPT ![j].pc = "attempt",
                            ![j].loaded = Load(db[jobs[j].memo_id])]
    /\ UNCHANGED <<db, users, http, hubVars, brVars, call>>

\* _fetch_external_content (lines 183-278): the progress steps it broadcasts
FetchSteps(url, r) ==
    <<"scrape">>
    \o (IF r.raises THEN <<>>
        ELSE IF r.success /\ (is_twitter_url(url) \/ is_youtube_url(url)
                              \/ Truthy(r.content))
        THEN <<"scrape_done">> ELSE <<"scrape_failed">>)

\* the answer of a memo without URL: nothing is fetched
NoFetch == [raises |-> FALSE, success |-> FALSE, content |-> None, bypass |-> "none"]

\* What llm_service.extract_context_and_interests returns on every return
\* path (lines 179, 190, 246, 253): the tuple (context, interests, summary)
LlmReturn(context, interests, summary) == <<context, interests, summary>>

\* The answers of the LLM call: it raises LLMError, or returns its tuple; the
\* interests are filtered to the user's own list
LlmOutcomes(user_interests) ==
    {[raises |-> TRUE, value |-> <<>>]}
    \cup {[raises |-> FALSE, value |-> LlmReturn(c, i, "summary")] :
            c \in {None, "context"}, i \in {<<>>, user_interests}}

\* the unpacking into three names, which takes the tuple the call returns
C36_UnpackPair_three(t) == Len(t) = 3

\* "context, interests = await llm_service.extract_context_and_interests(...)"
UnpackPair(t) == Len(t) = 2

\* "len(text_to_analyze.strip()) < 20"
TooShort(text) == text = "short"

\* hasattr(context_extractor, "translate_and_highlight"): ContextExtractor
\* defines extract_context, match_interests and helpers only
ContextExtractorMethods == {"extract_context", "_fetch_url_content",
                            "_extract_og_metadata", "_extract_meta_content",
                            "_call_llm", "_call_llm_facts", "_normalize_facts",
                            "_build_prompt", "match_interests"}

\* _do_analysis after the fetch: _extract_context_and_interests, then the
\* translate/highlight step or its skip.  The result is the exception raised
\* (None when the attempt returns) and the progress steps broadcast.
AnalyzeFetched(row, fetched, user_interests, llm) ==
    IF llm.raises
    THEN [exc |-> LLMError, steps |-> <<"llm">>, llm_returned |-> FALSE,
          writes |-> {}]
    ELSE IF ~UnpackPair(llm.value)
    THEN [exc |-> UnpackError, steps |-> <<"llm">>, llm_returned |-> TRUE,
          writes |-> {}]
    ELSE LET interests == llm.value[2]
             s1 == <<"llm", "llm_done">>
                   \o (IF interests # <<>> THEN <<"interests_done">> ELSE <<>>)
             \* lines 347-356: context, interests, the title and image of a
             \* fetched page (that has them) and its content
             w1 == (IF llm.value[1] # None THEN {"context"} ELSE {})
                   \cup (IF interests # <<>> THEN {"interests"} ELSE {})
                   \cup (IF Truthy(fetched)
                         THEN {"og_title", "og_image", "fetched_content"} ELSE {})
             should_process_content ==
                 /\ row.memo_type = "EXTERNAL_SOURCE"
                 /\ Truthy(row.source_url)
                 /\ Truthy(fetched)
         IN IF ~should_process_content \/ TooShort(fetched)
            THEN [exc |-> [type |-> None, msg |-> None],
                  steps |-> Append(s1, "translate_skip"), llm_returned |-> TRUE,
                  writes |-> w1]
            ELSE IF "translate_and_highlight" \notin ContextExtractorMethods
            THEN [exc |-> NoAttributeError,
                  steps |-> Append(s1, "translate"), llm_returned |-> TRUE,
                  writes |-> w1]
            ELSE [exc |-> [type |-> None, msg |-> None],
                  steps |-> s1 \o <<"translate", "translate_done">>,
                  llm_returned |-> TRUE,
                  writes |-> w1 \cup {"original_language", "translated_content",
                                      "is_summary", "highlights",
                                      "display_content"}]

\* lines 312-317: the interests of the job's user, None unless truthy
UserInterests(user_id) ==
    IF user_id \in DOMAIN users /\ users[user_id].interests # <<>>
    THEN users[user_id].interests ELSE <<>>

\* _do_analysis (lines 335-386): every way one call of it can end, as
\* [exc, steps, llm_returned, bypass_failed, writes]
DoAnalysis(row, user_interests) ==
    LET url == row.source_url
    IN {LET fs == IF Truthy(url) THEN FetchSteps(url, r) ELSE <<>>
            fetched == IF r.success THEN r.content ELSE None
            a == AnalyzeFetched(row, fetched, user_interests, llm)
        IN IF r.raises
           THEN [exc |-> SemaphoreLoopError, steps |-> fs,
                 llm_returned |-> FALSE, bypass_failed |-> FALSE, writes |-> {}]
           ELSE [exc |-> a.exc, steps |-> fs \o a.steps,
                 llm_returned |-> a.llm_returned,
                 bypass_failed |-> (r.bypass = "failed"), writes |-> a.writes] :
          r \in (IF Truthy(url) THEN FetchOutcomes(url) ELSE {NoFetch}),
          llm \in LlmOutcomes(user_interests)}

\* The end of one round of the retry loop for the way a its _do_analysis
\* ended: the except branch or the lines after the call.  The round works on
\* the session's own copy of the row and touches the database at its commit.
Attempt(j, a) ==
    LET job == jobs[j]
        m == job.memo_id
        evs == Steps(m, a.steps)
        \* the fetch and the LLM call of this round returned
        cl == job.clean \/ a.llm_returned
        bf == a.bypass_failed
        \* the memo object of the session with the assignments of this round
        ld == [job.loaded EXCEPT !.dirty = @ \cup a.writes]
    IN IF a.exc.type # None
       THEN AttemptRaised(j, a.exc, evs, ld, cl, bf)
       ELSE AttemptReturned(j, evs, ld, cl, bf)

\* One round of the retry loop: _do_analysis and the branch of the loop it
\* ends in
JobAttempt(j) ==
    /\ jobs[j].pc = "attempt"
    /\ \E a \in DoAnalysis(db[jobs[j].memo_id], UserInterests(jobs[j].user_id)) :
            Attempt(j, a)
    /\ UNCHANGED <<users, http, streams, pubs, brVars, call>>

\* The same round with the lines it writes to the log: the except branch
\* (lines 160-163), "... ({attempt + 1}/{retry_count}): {e}", and the fetch
\* when the bypass gave up (url_fetcher.py line 633), "... 우회 최종 실패: {url}"
JobAttemptLogged(j) ==
    /\ jobs[j].pc = "attempt"
    /\ \E a \in DoAnalysis(db[jobs[j].memo_id], UserInterests(jobs[j].user_id)) :
            /\ Attempt(j, a)
            /\ call' = [call EXCEPT
                         !.errors = IF a.exc.type # None
                                    THEN Append(@, str(a.exc)) ELSE @,
                         !.bypass_failures =
                             IF a.bypass_failed
                             THEN Append(@, db[jobs[j].memo_id].source_url)
                             ELSE @]
    /\ UNCHANGED <<users, http, streams, pubs, brVars>>

(***************************************************************************)
(* Specifications of the job state machine.                                *)
(***************************************************************************)
InitUsers == {[u \in {USER} |-> [interests |-> i]] : i \in {<<>>, <<"ai">>}}

InitIdle ==
    /\ streams = <<>>
    /\ pubs = <<>>
    /\ fetchers = <<>>
    /\ sem_value = 0
    /\ browsers = 0
    /\ call = NoCall

\* Concurrent jobs of one memo; no SSE subscriber is connected
Init ==
    /\ db = <<>>
    /\ users = [u \in {USER} |-> [interests |-> <<"ai">>]]
    /\ jobs = [j \in JobIds |-> IdleJob]
    /\ http = NoResponse
    /\ sse_queues = <<>>
    /\ InitIdle

\* _run_background_analysis: the thread of job j
JobRun(j) == JobQuery(j) \/ JobMarkAnalyzing(j) \/ JobReload(j) \/ JobAttempt(j)

JobStep == \E j \in JobIds : JobRun(j)

Create ==
    \E t \in MemoTypes, u \in Urls \cup {None}, c \in Urls \cup {None} :
        create_temp_memo(t, u, c)

Reanalyze == \E force \in BOOLEAN : reanalyze_memo(USER, MEMO, force)

Next == Create \/ Reanalyze \/ JobStep

Spec == Init /\ [][Next]_vars

\* The same with every reanalyze request forced
ForceReanalyze == reanalyze_memo(USER, MEMO, TRUE)

SpecForce == Init /\ [][Create \/ ForceReanalyze \/ JobStep]_vars

\* One run observed by a connected SSE subscriber
OBSERVER == "client_obs"

InitRun ==
    /\ db = <<>>
    /\ users \in InitUsers
    /\ jobs = [j \in JobIds |-> IdleJob]
    /\ http = NoResponse
    /\ sse_queues = [c \in {OBSERVER} |-> <<>>]
    /\ InitIdle

NextRun == Create \/ JobStep

SpecRun == InitRun /\ [][NextRun]_vars

\* One run with the log of the exceptions its attempts raised and of the
\* final failures of the bypass
InitRetry ==
    /\ db = <<>>
    /\ users \in InitUsers
    /\ jobs = [j \in JobIds |-> IdleJob]
    /\ http = NoResponse
    /\ sse_queues = [c \in {OBSERVER} |-> <<>>]
    /\ streams = <<>> /\ pubs = <<>>
    /\ fetchers = <<>> /\ sem_value = 0 /\ browsers = 0
    /\ call = [fn |-> "run_analysis", errors |-> <<>>, bypass_failures |-> <<>>]

JobRunLogged(j) ==
    JobQuery(j) \/ JobMarkAnalyzing(j) \/ JobReload(j) \/ JobAttemptLogged(j)

NextRetry == Create \/ \E j \in JobIds : JobRunLogged(j)

SpecRetry == InitRetry /\ [][NextRetry]_vars

\* Jobs of one article memo, started by its creation and by reanalyze requests.
\* Every scheduled job thread keeps running: the thread pool runs each task,
\* and each fetch or LLM call returns or raises
CreateArticle == create_temp_memo("EXTERNAL_SOURCE", GENERIC_URL, None)

NextArticle == CreateArticle \/ Reanalyze \/ JobStep

FairSpec == Init /\ [][NextArticle]_vars /\ \A j \in JobIds : WF_vars(JobRun(j))

(***************************************************************************)
(* The SSE hub: the registry _sse_queues shared by the subscriber          *)
(* connections (tasks of the server's event loop) and the job threads      *)
(* (each with an event loop of its own, run_async_in_thread).              *)
(***************************************************************************)
\* client ids are uuid4 strings: the subscriber under observation and one
\* that comes and goes beside it
BYSTANDER == "client_by"
ClientIds == {OBSERVER, BYSTANDER}

IdleStream == [pc |-> "none", connected |-> FALSE, got |-> {}, ngot |-> 0]
IdlePub == [pc |-> "idle", sent |-> FALSE, snap |-> {}, todo |-> {}, error |-> FALSE]

\* register_sse_client: _sse_queues[client_id] = queue
register_sse_client(queues, c) ==
    [x \in DOMAIN queues \cup {c} |-> IF x = c THEN <<>> ELSE queues[x]]

\* unregister_sse_client: "if client_id in _sse_queues: del _sse_queues[client_id]"
unregister_sse_client(queues, c) ==
    [x \in DOMAIN queues \ {c} |-> queues[x]]

\* GET /analysis-events up to "return EventSourceResponse(event_generator())":
\* the queue is made and registered; the generator has not run yet
Connect(c) ==
    /\ streams[c].pc = "none"
    /\ sse_queues' = register_sse_client(sse_queues, c)
    /\ streams' = [streams EXCEPT ![c].pc = "registered", ![c].connected = TRUE]
    /\ UNCHANGED <<jobVars, pubs, brVars, call>>

\* the subscriber goes away
Disconnect(c) ==
    /\ streams[c].pc \in {"registered", "loop"}
    /\ streams[c].connected
    /\ streams' = [streams EXCEPT ![c].connected = FALSE]
    /\ UNCHANGED <<jobVars, sse_queues, pubs, brVars, call>>

\* top of the generator's loop: "if await request.is_disconnected(): break",
\* and the finally block after the break.  The loop comes back here after
\* every event and, with an empty queue, after the 5 seconds of wait_for
\* (the keepalive ping).
StreamCheck(c) ==
    /\ streams[c].pc \in {"registered", "loop"}
    /\ IF streams[c].connected
       THEN /\ streams[c].pc = "registered"
            /\ streams' = [streams EXCEPT ![c].pc = "loop"]
            /\ UNCHANGED sse_queues
       ELSE /\ streams' = [streams EXCEPT ![c].pc = "closed"]
            /\ sse_queues' = unregister_sse_client(sse_queues, c)
    /\ UNCHANGED <<jobVars, pubs, brVars, call>>

\* "event = await asyncio.wait_for(queue.get(), timeout=5.0)" returns an event,
\* which is yielded.  A put from a job thread does not wake the server's
\* loop; the event is got at the latest in the round after the timeout.
StreamGet(c) ==
    /\ streams[c].pc = "loop"
    /\ c \in DOMAIN sse_queues
    /\ sse_queues[c] # <<>>
    /\ streams' = [streams EXCEPT ![c].got = @ \cup {Head(sse_queues[c])},
                                  ![c].ngot = @ + 1]
    /\ sse_queues' = [sse_queues EXCEPT ![c] = Tail(@)]
    /\ UNCHANGED <<jobVars, pubs, brVars, call>>

\* The response of a subscriber that went away is cancelled.  A generator
\* suspended in its loop gets the exception at its await or yield and runs
\* the finally block; a generator that was never iterated has not entered
\* the try block, and closing it runs nothing.
StreamCancel(c) ==
    /\ streams[c].pc \in {"registered", "loop"}
    /\ ~streams[c].connected
    /\ streams' = [streams EXCEPT ![c].pc = "closed"]
    /\ sse_queues' = IF streams[c].pc = "registered"
                     THEN sse_queues
                     ELSE unregister_sse_client(sse_queues, c)
    /\ UNCHANGED <<jobVars, pubs, brVars, call>>

\* the loop over the registry itself, with no copy
C7_IterationItems_live(snapshot, live) == live

\* "list(_sse_queues.items())": the broadcast iterates a copy of the registry
IterationItems(snapshot, live) == snapshot

\* "await queue.put(event_data)" on an unbounded asyncio.Queue: the item is
\* appended before the getter is woken, so a failure to wake it (caught by
\* the except branch) leaves the item in the queue
QueuePut(queue, ev) == Append(queue, ev)

\* _broadcast_sse_event, entered by the thread of job p with its event
BroadcastStart(p) ==
    /\ pubs[p].pc = "idle"
    /\ ~pubs[p].sent
    /\ LET items == DOMAIN sse_queues
       IN pubs' = [pubs EXCEPT ![p] =
                     [pc |-> IF items = {} THEN "idle" ELSE "broadcast",
                      sent |-> TRUE, snap |-> items, todo |-> items,
                      error |-> FALSE]]
    /\ UNCHANGED <<jobVars, sse_queues, streams, brVars, call>>

\* one round of "for client_id, queue in ...: await queue.put(event_data)"
BroadcastPut(p, c) ==
    /\ pubs[p].pc = "broadcast"
    /\ c \in pubs[p].todo
    /\ LET pub == pubs[p]
           items == IterationItems(pub.snap, DOMAIN sse_queues)
           rest == pub.todo \ {c}
       IN IF Cardinality(items) # Cardinality(pub.snap)
          THEN \* RuntimeError: dictionary changed size during iteration
               /\ pubs' = [pubs EXCEPT ![p].pc = "idle", ![p].error = TRUE,
                                       ![p].snap = {}, ![p].todo = {}]
               /\ UNCHANGED sse_queues
          ELSE /\ pubs' = [pubs EXCEPT ![p].todo = rest,
                                       ![p].snap = IF rest = {} THEN {} ELSE @,
                                       ![p].pc = IF rest = {} THEN "idle"
                                                 ELSE "broadcast"]
               /\ sse_queues' = IF c \in DOMAIN sse_queues
                                THEN [sse_queues EXCEPT
                                        ![c] = QueuePut(@, ProgressEvent(p, "start"))]
                                ELSE sse_queues
    /\ UNCHANGED <<jobVars, streams, brVars, call>>

InitHub ==
    /\ db = <<>>
    /\ users = [u \in {USER} |-> [interests |-> <<>>]]
    /\ jobs = [j \in JobIds |-> IdleJob]
    /\ http = NoResponse
    /\ sse_queues = <<>>
    /\ streams = [c \in ClientIds |-> IdleStream]
    /\ pubs = [p \in JobIds |-> IdlePub]
    /\ fetchers = <<>>
    /\ sem_value = 0
    /\ browsers = 0
    /\ call = NoCall

StreamStep(c) == StreamCheck(c) \/ StreamGet(c) \/ StreamCancel(c)
BroadcastStep(p) == BroadcastStart(p) \/ \E c \in ClientIds : BroadcastPut(p, c)

NextHub ==
    \/ \E c \in ClientIds : Connect(c) \/ Disconnect(c) \/ StreamStep(c)
    \/ \E p \in JobIds : BroadcastStep(p)

SpecHub == InitHub /\ [][NextHub]_vars

\* The server's loop keeps running the tasks of its connections and cancels
\* the response of a subscriber that went away; job threads keep running
FairHub ==
    /\ SpecHub
    /\ \A c \in ClientIds : WF_vars(StreamStep(c))
    /\ \A p \in JobIds : WF_vars(BroadcastStep(p))

(***************************************************************************)
(* Browser sessions of the fetches that run at the same time, one fetch    *)
(* per job thread.                                                         *)
(***************************************************************************)
FetcherIds == 1 .. MaxFetchers

IdleFetcher == [kind |-> "none", pc |-> "idle", session |-> 0, raised |-> FALSE]

\* A job thread enters its fetch: TwitterScraper.scrape for a tweet URL,
\* _fetch_html_content for another page.  The static text of a page is good
\* ("content"), too short or empty ("short": fetch_with_playwright follows),
\* or the page is blocked by Cloudflare (fetch_with_cloudflare_bypass follows)
FetchStart(f) ==
    /\ fetchers[f].pc = "idle"
    /\ \/ fetchers' = [fetchers EXCEPT ![f].kind = "twitter", ![f].pc = "acquire"]
       \/ \E page \in {"content", "short", "blocked"} :
            fetchers' = [fetchers EXCEPT
                           ![f].kind = "html",
                           ![f].pc = CASE page = "content" -> "done"
                                       [] page = "short" -> "render"
                                       [] page = "blocked" -> "bypass",
                           ![f].session = IF page = "blocked" THEN 1 ELSE 0]
    /\ UNCHANGED <<jobVars, hubVars, call, sem_value, browsers>>

\* "async with semaphore": asyncio.Semaphore.acquire reads the value ...
SemCheck(f) ==
    /\ fetchers[f].pc = "acquire"
    /\ sem_value > 0
    /\ fetchers' = [fetchers EXCEPT ![f].pc = "take"]
    /\ UNCHANGED <<jobVars, hubVars, call, sem_value, browsers>>

\* ... and decrements it; the semaphore is shared by the threads of all jobs
\* and the two steps of one thread are not atomic for the others
SemTake(f) ==
    /\ fetchers[f].pc = "take"
    /\ sem_value' = sem_value - 1
    /\ fetchers' = [fetchers EXCEPT ![f].pc = "api"]
    /\ UNCHANGED <<jobVars, hubVars, call, browsers>>

\* a caller that has to wait on a semaphore bound to the event loop of
\* another job gets RuntimeError
SemRaise(f) ==
    /\ fetchers[f].pc = "acquire"
    /\ sem_value <= 0
    /\ fetchers' = [fetchers EXCEPT ![f].pc = "done", ![f].raised = TRUE]
    /\ UNCHANGED <<jobVars, hubVars, call, sem_value, browsers>>

\* scrape inside the semaphore: one of the three APIs answers, or
\* _scrape_internal opens a browser
TwitterApis(f) ==
    /\ fetchers[f].pc = "api"
    /\ \/ /\ fetchers' = [fetchers EXCEPT ![f].pc = "done"]
          /\ sem_value' = sem_value + 1
       \/ /\ fetchers' = [fetchers EXCEPT ![f].pc = "scrape"]
          /\ UNCHANGED sem_value
    /\ UNCHANGED <<jobVars, hubVars, call, browsers>>

\* "browser = await p.chromium.launch(...)" of _scrape_internal,
\* fetch_with_playwright and fetch_with_cloudflare_bypass
BrowserLaunch(f) ==
    /\ fetchers[f].pc \in {"scrape", "render", "bypass"}
    /\ browsers' = browsers + 1
    /\ fetchers' = [fetchers EXCEPT ![f].pc = CASE @ = "scrape" -> "scrape_open"
                                                [] @ = "render" -> "render_open"
                                                [] @ = "bypass" -> "bypass_open"]
    /\ UNCHANGED <<jobVars, hubVars, call, sem_value>>

\* the browser is closed and the fetch goes on: the tweet scrape leaves the
\* semaphore; a rendered page that is blocked starts the bypass; a bypass
\* session that did not get through is followed by the next, max_retries in all
BrowserClose(f) ==
    /\ fetchers[f].pc \in {"scrape_open", "render_open", "bypass_open"}
    /\ browsers' = browsers - 1
    /\ LET fe == fetchers[f]
       IN CASE fe.pc = "scrape_open" ->
                 /\ fetchers' = [fetchers EXCEPT ![f].pc = "done"]
                 /\ sem_value' = sem_value + 1
            [] fe.pc = "render_open" ->
                 /\ \E blocked \in BOOLEAN :
                      fetchers' = [fetchers EXCEPT
                                     ![f].pc = IF blocked THEN "bypass" ELSE "done",
                                     ![f].session = IF blocked THEN 1 ELSE 0]
                 /\ UNCHANGED sem_value
            [] fe.pc = "bypass_open" ->
                 /\ \E success \in BOOLEAN :
                      fetchers' = [fetchers EXCEPT
                                     ![f].pc = IF ~success /\ fe.session < max_retries
                                               THEN "bypass" ELSE "done",
                                     ![f].session = IF ~success /\ fe.session < max_retries
                                                    THEN @ + 1 ELSE @]
                 /\ UNCHANGED sem_value
    /\ UNCHANGED <<jobVars, hubVars, call>>

InitBrowser ==
    /\ db = <<>>
    /\ users = [u \in {USER} |-> [interests |-> <<>>]]
    /\ jobs = [j \in JobIds |-> IdleJob]
    /\ http = NoResponse
    /\ sse_queues = <<>>
    /\ streams = <<>>
    /\ pubs = <<>>
    /\ fetchers = [f \in FetcherIds |-> IdleFetcher]
    /\ sem_value = MAX_CONCURRENT_REQUESTS
    /\ browsers = 0
    /\ call = NoCall

NextBrowser ==
    \E f \in FetcherIds :
        \/ FetchStart(f)
        \/ SemCheck(f) \/ SemTake(f) \/ SemRaise(f)
        \/ TwitterApis(f)
        \/ BrowserLaunch(f) \/ BrowserClose(f)

SpecBrowser == InitBrowser /\ [][NextBrowser]_vars

(***************************************************************************)
(* Text functions of llm_service.  A Python str is the sequence of its     *)
(* characters; positions count from 0 as in Python.                        *)
(***************************************************************************)
MaxText == 3        \* characters of a text given to highlight extraction
MaxItems == 2       \* items of the JSON list the model answers with
max_highlights == 1 \* the default 5 of max_highlights, scaled to MaxItems
ShortLen == 2       \* characters kept by "highlight_text[:50]", scaled to MaxText

Chars == {"a", "b"}

\* every str of at most n characters over the alphabet
Strings(alphabet, n) == UNION {[1 .. k -> alphabet] : k \in 0 .. n}

Min(a, b) == IF a <= b THEN a ELSE b
Max(a, b) == IF a >= b THEN a ELSE b

\* s[i:j] for 0 <= i
Slice(s, i, j) == SubSeq(s, i + 1, Min(j, Len(s)))

\* s.find(sub): the lowest position where sub occurs in s, -1 when it does not
find(s, sub) ==
    LET hits == {i \in 0 .. Len(s) - Len(sub) : Slice(s, i, i + Len(sub)) = sub}
    IN IF hits = {} THEN -1 ELSE CHOOSE i \in hits : \A k \in hits : i <= k

\* no state of the job machine, the hub or the browsers
InitNoJobs ==
    /\ db = <<>>
    /\ users = [u \in {USER} |-> [interests |-> <<>>]]
    /\ jobs = [j \in JobIds |-> IdleJob]
    /\ http = NoResponse
    /\ sse_queues = <<>>
    /\ streams = <<>>
    /\ pubs = <<>>
    /\ fetchers = <<>>
    /\ sem_value = 0
    /\ browsers = 0

(***************************************************************************)
(* Comments on a memo and the AI reply to each: create_comment and its     *)
(* background task _run_ai_response_task, one thread per comment.  The     *)
(* events go to the queue of the connected subscriber.                     *)
(***************************************************************************)
MaxComments == 3

CommentIds == 1 .. MaxComments

NoComment == [pc |-> "none", user_id |-> None, response_status |-> None,
              response_error |-> None, replies |-> 0]

\* notify_comment_ai_response: the error key is present only when error is truthy
CommentEvent(parent_comment_id, status, error) ==
    [event_type |-> "comment_ai_response", memo_id |-> MEMO,
     parent_comment_id |-> parent_comment_id, status |-> status,
     error |-> IF error # None /\ error # "" THEN error ELSE None]

\* "async def generate_ai_response(comment_id, db)"
generate_ai_response_params == <<"comment_id", "db">>

\* "generate_ai_response(comment_id, db, user_id)" (memo_comments.py line 50)
generate_ai_response_args == <<"comment_id", "db", "user_id">>

\* Python binds positional arguments to the parameters in order and raises
\* TypeError when there are more arguments than parameters
Binds(args, params) == Len(args) <= Len(params)

TypeError ==
    [type |-> "TypeError",
     msg |-> "generate_ai_response() takes 2 positional arguments but 3 were given"]

\* the answers of _call_llm: the reply, LLMError, or another exception
CommentLlmOutcomes ==
    {[exc |-> [type |-> None, msg |-> None]], [exc |-> LLMError],
     [exc |-> [type |-> "Exception", msg |-> "unexpected"]]}

\* the body of generate_ai_response for a user comment whose memo exists
\* (lines 60-101): the comment as committed, and whether an AI comment is
\* returned
generate_ai_response(comment, llm) ==
    IF llm.exc.type = None
    THEN [comment |-> [comment EXCEPT !.response_status = "completed",
                                      !.response_error = None,
                                      !.replies = @ + 1],
          ai_comment |-> TRUE]
    ELSE [comment |-> [comment EXCEPT !.response_status = "failed",
                                      !.response_error = str(llm.exc)],
          ai_comment |-> FALSE]

InitComments ==
    /\ db = <<>>
    /\ users = [u \in {USER} |-> [interests |-> <<>>]]
    /\ jobs = [j \in JobIds |-> IdleJob]
    /\ http = NoResponse
    /\ sse_queues = [c \in {OBSERVER} |-> <<>>]
    /\ streams = <<>> /\ pubs = <<>>
    /\ fetchers = <<>> /\ sem_value = 0 /\ browsers = 0
    /\ call = [fn |-> "create_comment", comments |-> [c \in CommentIds |-> NoComment]]

\* POST /temp-memos/{memo_id}/comments (lines 91-120), by a signed-in user or
\* anonymously
create_comment(c, current_user) ==
    /\ call.fn = "create_comment"
    /\ call.comments[c].pc = "none"
    /\ \A k \in CommentIds : k < c => call.comments[k].pc # "none"
    /\ call' = [call EXCEPT !.comments[c] =
                    [NoComment EXCEPT !.pc = "scheduled", !.user_id = current_user,
                                      !.response_status = "pending"]]
    /\ UNCHANGED <<jobVars, hubVars, brVars>>

\* _async_task up to the notification (lines 48-51, 58-67, 75-77)
RunAiResponseTask(c) ==
    /\ call.fn = "create_comment"
    /\ call.comments[c].pc = "scheduled"
    /\ IF ~Binds(generate_ai_response_args, generate_ai_response_params)
       THEN \* the call raises before the coroutine runs: "except Exception as e"
            call' = [call EXCEPT !.comments[c].pc = "notify_error"]
       ELSE \E llm \in CommentLlmOutcomes :
              LET r == generate_ai_response(call.comments[c], llm)
              IN call' = [call EXCEPT !.comments[c] =
                            [r.comment EXCEPT !.pc = IF r.ai_comment
                                                     THEN "notify_completed"
                                                     ELSE "notify_failed"]]
    /\ UNCHANGED <<jobVars, hubVars, brVars>>

\* the notify_comment_ai_response of the branch taken (lines 52-57, 68-74,
\* 78-84), then "finally: db.close()"
NotifyCommentAiResponse(c) ==
    /\ call.fn = "create_comment"
    /\ call.comments[c].pc \in {"notify_completed", "notify_failed", "notify_error"}
    /\ LET comment == call.comments[c]
           ev == CASE comment.pc = "notify_completed" ->
                        CommentEvent(c, "completed", None)
                   [] comment.pc = "notify_failed" ->
                        CommentEvent(c, "failed",
                                     IF Truthy(comment.response_error)
                                     THEN comment.response_error
                                     ELSE "AI response failed")
                   [] comment.pc = "notify_error" ->
                        CommentEvent(c, "failed", str(TypeError))
       IN sse_queues' = Broadcast(sse_queues, ev)
    /\ call' = [call EXCEPT !.comments[c].pc = "done"]
    /\ UNCHANGED <<db, users, jobs, http, streams, pubs, brVars>>

NextComments ==
    \E c \in CommentIds :
        \/ \E u \in {None, USER} : create_comment(c, u)
        \/ RunAiResponseTask(c)
        \/ NotifyCommentAiResponse(c)

SpecComments == InitComments /\ [][NextComments]_vars

\* run_analysis(memo_id, db, user_id, retry_count) of an existing memo for the
\* values of its parameter retry_count: the status it commits, the complete
\* events it sends, the exceptions of its attempts and the exception, if any,
\* that leaves it
MaxRetryCount == 5

AttemptErrors == {LLMError, UnpackError, SemaphoreLoopError}

IndexError == [type |-> "IndexError", msg |-> "list index out of range"]

InitRunCount ==
    /\ InitNoJobs
    /\ \E n \in 0 .. MaxRetryCount :
         call = [fn |-> "run_analysis", retry_count |-> n, pc |-> "start",
                 attempt |-> 0, analysis_status |-> "pending",
                 analysis_error |-> None, errors |-> <<>>, complete |-> <<>>,
                 escaped |-> None]

\* lines 127-138
RunMarkAnalyzing ==
    /\ call.fn = "run_analysis" /\ call.pc = "start"
    /\ call' = [call EXCEPT !.pc = "loop", !.analysis_status = "analyzing",
                            !.analysis_error = None]
    /\ UNCHANGED <<jobVars, hubVars, brVars>>

\* lines 143-181: one round of "for attempt in range(retry_count)" whose
\* _do_analysis raises e, as every call of it does
RunAttempt ==
    /\ call.fn = "run_analysis" /\ call.pc = "loop"
    /\ call.attempt < call.retry_count
    /\ \E e \in AttemptErrors :
         LET c == [call EXCEPT !.errors = Append(@, e.type), !.attempt = @ + 1]
         IN call' =
              IF call.attempt < call.retry_count - 1
              THEN IF call.attempt + 1 \in DOMAIN retry_delays
                   THEN c
                   ELSE \* "delay = retry_delays[attempt]" raises in the handler
                        [c EXCEPT !.pc = "escaped", !.escaped = IndexError.type]
              ELSE [c EXCEPT !.analysis_status = "failed",
                             !.analysis_error = str(e),
                             !.complete = Append(@, "failed")]
    /\ UNCHANGED <<jobVars, hubVars, brVars>>

\* the loop is over: run_analysis returns None
RunReturn ==
    /\ call.fn = "run_analysis" /\ call.pc = "loop"
    /\ call.attempt >= call.retry_count
    /\ call' = [call EXCEPT !.pc = "returned"]
    /\ UNCHANGED <<jobVars, hubVars, brVars>>

SpecRunCount == InitRunCount /\ [][RunMarkAnalyzing \/ RunAttempt \/ RunReturn]_vars

(***************************************************************************)
(* One call of fetch_with_cloudflare_bypass(url, progress_callback,        *)
(* max_retries=3), step by step.  A poll of the page gives "challenge"     *)
(* (is_cloudflare_blocked(html, 403)), "title" (the content is clear and   *)
(* the title still says "just a moment" or "cloudflare"), "passed" (both   *)
(* clear) or "error" (page.content() or another call of the round raised). *)
(* The progress notifications, the delays and the browser.close() before   *)
(* "return html, True" are taken to return.                                *)
(***************************************************************************)
wait_rounds == 5     \* "for wait_round in range(5)"

PageStates == {"challenge", "title", "passed", "error"}

BypassReturn(c, success) == [c EXCEPT !.pc = "returned", !.success = success]

InitBypass ==
    /\ InitNoJobs
    /\ \E installed \in BOOLEAN :
         call = [fn |-> "fetch_with_cloudflare_bypass", pc |-> "import",
                 installed |-> installed, attempt |-> 0, wait_round |-> 0,
                 sessions |-> 0, polls |-> <<>>, last_page |-> None,
                 slept |-> {}, success |-> FALSE]

\* lines 221-225: "from playwright.async_api import async_playwright"
BypassImport ==
    /\ call.fn = "fetch_with_cloudflare_bypass"
    /\ call.pc = "import"
    /\ call' = IF call.installed THEN [call EXCEPT !.pc = "session"]
               ELSE BypassReturn(call, FALSE)
    /\ UNCHANGED <<jobVars, hubVars, brVars>>

\* lines 231-326: one round of "for attempt in range(max_retries)" up to the
\* wait loop; the launch of the browser or the calls after it can raise into
\* "except Exception as e" (line 415)
BypassLaunch ==
    /\ call.fn = "fetch_with_cloudflare_bypass"
    /\ call.pc = "session"
    /\ \E raises \in BOOLEAN :
         call' = [call EXCEPT !.pc = IF raises THEN "after" ELSE "round",
                              !.sessions = @ + 1,
                              !.polls = Append(@, 0),
                              !.wait_round = 0,
                              !.last_page = None]
    /\ UNCHANGED <<jobVars, hubVars, brVars>>

\* lines 328-395: one round of "for wait_round in range(5)"
BypassRound ==
    /\ call.fn = "fetch_with_cloudflare_bypass"
    /\ call.pc = "round"
    /\ \E page \in PageStates :
         LET c == [call EXCEPT !.polls[call.sessions] = @ + 1,
                               !.last_page = page]
         IN call' = CASE page = "passed" -> BypassReturn(c, TRUE)
                      [] page = "error" -> [c EXCEPT !.pc = "close"]
                      [] page \in {"challenge", "title"} ->
                           [c EXCEPT !.wait_round = @ + 1,
                                     !.pc = IF call.wait_round + 1 < wait_rounds
                                            THEN "round" ELSE "close"]
    /\ UNCHANGED <<jobVars, hubVars, brVars>>

\* lines 397-413: the content after the rounds; a page of more than 1000
\* characters that is not a challenge page is returned as a success
BypassClose ==
    /\ call.fn = "fetch_with_cloudflare_bypass"
    /\ call.pc = "close"
    /\ \E partial \in BOOLEAN :
         call' = IF partial THEN BypassReturn(call, TRUE)
                 ELSE [call EXCEPT !.pc = "after"]
    /\ UNCHANGED <<jobVars, hubVars, brVars>>

\* the backoff of every attempt, the last one too
C33_Backoff_always(attempt) == TRUE

\* line 419: "if attempt < max_retries - 1"
Backoff(attempt) == attempt < max_retries - 1

\* lines 418-435: the backoff, then the next round of the loop or the
\* return after the last one
BypassRetry ==
    /\ call.fn = "fetch_with_cloudflare_bypass"
    /\ call.pc = "after"
    /\ LET c == [call EXCEPT !.slept = IF Backoff(call.attempt)
                                       THEN @ \cup {call.attempt} ELSE @,
                             !.attempt = @ + 1]
       IN call' = IF call.attempt + 1 < max_retries
                  THEN [c EXCEPT !.pc = "session"]
                  ELSE BypassReturn(c, FALSE)
    /\ UNCHANGED <<jobVars, hubVars, brVars>>

NextBypass ==
    BypassImport \/ BypassLaunch \/ BypassRound \/ BypassClose \/ BypassRetry

SpecBypass == InitBypass /\ [][NextBypass]_vars

\* "short_text = highlight_text[:50]"
short_text(highlight_text) == Slice(highlight_text, 0, ShortLen)

\* the body of "for item in highlights_raw" (lines 911-933) for one item whose
\* "text" is highlight_text; an item without text is skipped
LocateHighlight(text, highlight_text) ==
    LET first == find(text, highlight_text)
        start == IF first = -1 THEN find(text, short_text(highlight_text))
                 ELSE first
        end == IF start # -1 THEN start + Len(highlight_text) ELSE -1
    IN [text |-> highlight_text, start |-> start, end |-> end]

RECURSIVE LocateAll(_, _)
LocateAll(text, highlights_raw) ==
    IF highlights_raw = <<>> THEN <<>>
    ELSE LET rest == LocateAll(text, Tail(highlights_raw))
         IN IF Head(highlights_raw) = <<>> THEN rest
            ELSE <<LocateHighlight(text, Head(highlights_raw))>> \o rest

\* _extract_highlights(client, text) for the JSON list the model answered
\* with: "return highlights if highlights else None"
extract_highlights(text, highlights_raw) ==
    LET highlights == LocateAll(text, highlights_raw)
    IN IF highlights # <<>> THEN highlights ELSE None

\* the texts of the items the model answers with: sentences of the text, of
\* another wording, or empty
HighlightsRaw == UNION {[1 .. k -> Strings(Chars, MaxText)] : k \in 0 .. MaxItems}

InitHighlights ==
    /\ InitNoJobs
    /\ \E text \in Strings(Chars, MaxText), highlights_raw \in HighlightsRaw :
         \* max_highlights goes into the instructions of the request and
         \* nowhere else
         call = [fn |-> "_extract_highlights", text |-> text,
                 max_highlights |-> max_highlights,
                 highlights_raw |-> highlights_raw, returned |-> FALSE,
                 highlights |-> None]

ExtractHighlights ==
    /\ call.fn = "_extract_highlights"
    /\ ~call.returned
    /\ call' = [call EXCEPT !.returned = TRUE,
                            !.highlights = extract_highlights(call.text,
                                                              call.highlights_raw)]
    /\ UNCHANGED <<jobVars, hubVars, brVars>>

SpecHighlights == InitHighlights /\ [][ExtractHighlights]_vars

(***************************************************************************)
(* The interest tags returned by extract_context_and_interests.            *)
(***************************************************************************)
MaxTags == 2        \* tags of the user's list, and of the model's answer

LowerChar(c) ==
    CASE c = "A" -> "a"
      [] c = "I" -> "i"
      [] c = "B" -> "b"
      [] OTHER -> c

\* str.lower()
lower(s) == [i \in 1 .. Len(s) |-> LowerChar(s[i])]

\* the whitespace of str.strip() that the texts of the model hold
Whitespace == {" ", "\n", "\t"}

RECURSIVE lstrip(_)
lstrip(s) == IF s # <<>> /\ Head(s) \in Whitespace THEN lstrip(Tail(s)) ELSE s

RECURSIVE rstrip(_)
rstrip(s) ==
    IF s # <<>> /\ s[Len(s)] \in Whitespace THEN rstrip(SubSeq(s, 1, Len(s) - 1)) ELSE s

\* str.strip()
strip(s) == rstrip(lstrip(s))

\* the tags a user declares, and what the model may answer with: the same tags
\* in another case or with spaces around, and a tag the user never declared
UserTags == {<<"a", "i">>, <<"A", "I">>, <<"b">>}
ModelTags == UserTags \cup {<<" ", "a", "i">>, <<"B", " ">>, <<"x">>}

\* an element of the "interests" array of the JSON answer: a str or not
StrItem(s) == [is_str |-> TRUE, value |-> s]
NotStrItem == [is_str |-> FALSE, value |-> <<>>]

\* the model's tag appended as it came
C12_MatchTag_unfiltered(user_interests, interest_lower) == <<interest_lower>>

\* "user_interests_lower = {i.lower(): i for i in user_interests}" and
\* "if interest_lower in user_interests_lower: matched.append(...)": the tag
\* appended is the user's own spelling, the last one of the list with that key
MatchTag(user_interests, interest_lower) ==
    LET keys == {i \in 1 .. Len(user_interests) :
                   lower(user_interests[i]) = interest_lower}
    IN IF keys = {} THEN <<>>
       ELSE <<user_interests[CHOOSE i \in keys : \A k \in keys : k <= i]>>

\* lines 235-240: the loop over raw_interests of the combined answer
RECURSIVE FilterRawInterests(_, _)
FilterRawInterests(user_interests, raw_interests) ==
    IF raw_interests = <<>> THEN <<>>
    ELSE LET interest == Head(raw_interests)
             rest == FilterRawInterests(user_interests, Tail(raw_interests))
         IN IF interest.is_str
            THEN MatchTag(user_interests, lower(strip(interest.value))) \o rest
            ELSE rest

\* match_interests (lines 326-388); candidates is raw.split(",")
RECURSIVE MatchCandidates(_, _)
MatchCandidates(user_interests, candidates) ==
    IF candidates = <<>> THEN <<>>
    ELSE MatchTag(user_interests, lower(strip(Head(candidates))))
         \o MatchCandidates(user_interests, Tail(candidates))

match_interests(user_interests, candidates) ==
    IF user_interests = <<>> THEN <<>>
    ELSE MatchCandidates(user_interests, candidates)

RECURSIVE Values(_)
Values(items) ==
    IF items = <<>> THEN <<>>
    ELSE (IF Head(items).is_str THEN <<Head(items).value>> ELSE <<>>)
         \o Values(Tail(items))

\* the interests of extract_context_and_interests: [] without interests
\* (line 190), the filtered array of the combined answer (line 246), or
\* match_interests when the combined answer is no JSON (line 252)
extract_interests(user_interests, parsed, answer) ==
    IF user_interests = <<>> THEN <<>>
    ELSE IF parsed THEN FilterRawInterests(user_interests, answer)
    ELSE match_interests(user_interests, Values(answer))

Lists(items, n) == UNION {[1 .. k -> items] : k \in 0 .. n}

InitInterests ==
    /\ InitNoJobs
    /\ \E user_interests \in Lists(UserTags, MaxTags),
          answer \in Lists({StrItem(t) : t \in ModelTags} \cup {NotStrItem}, MaxTags),
          parsed \in BOOLEAN :
         call = [fn |-> "extract_context_and_interests",
                 user_interests |-> user_interests, answer |-> answer,
                 parsed |-> parsed, returned |-> FALSE, interests |-> <<>>]

ExtractInterests ==
    /\ call.fn = "extract_context_and_interests"
    /\ ~call.returned
    /\ call' = [call EXCEPT !.returned = TRUE,
                            !.interests = extract_interests(call.user_interests,
                                                            call.parsed, call.answer)]
    /\ UNCHANGED <<jobVars, hubVars, brVars>>

SpecInterests == InitInterests /\ [][ExtractInterests]_vars

(***************************************************************************)
(* _split_into_chunks and _merge_translations.  The sizes are scaled to    *)
(* the texts of the model: CHUNK_SIZE is 3000 and CHUNK_OVERLAP 200 in the *)
(* code, and the overlaps tried by the merge are range(min(100, ...), 10,  *)
(* -5).                                                                    *)
(***************************************************************************)
MaxDoc == 7          \* characters of a text given to the chunker
CHUNK_SIZE == 5
CHUNK_OVERLAP == 1
OverlapFrom == 3     \* the 100 of the merge
OverlapStop == 0     \* the 10 of the merge
OverlapStep == 2     \* the 5 of the merge
MaxPart == 3         \* characters of one translated chunk given to the merge
MaxParts == 2        \* translated chunks given to the merge

DocChars == {"a", ".", " "}

\* s[i] of Python, 0 <= i < len(s)
At(s, i) == s[i + 1]

\* the members of "for i in range(start, stop, -1)" that are sentence
\* boundaries (lines 420-427)
SentenceEnds(text, start, stop) ==
    {i \in stop + 1 .. start :
       \/ /\ At(text, i) \in {".", "!", "?"}
          /\ i + 1 < Len(text)
          /\ At(text, i + 1) \in Whitespace
       \/ At(text, i) = "\n"}

\* the end of the text as the end of every chunk
C39_EndPos_unbounded(text, current_pos) == Len(text)

\* lines 414-431: where the chunk that starts at current_pos ends
EndPos(text, current_pos) ==
    LET limit == Min(current_pos + CHUNK_SIZE, Len(text))
        ends == IF limit < Len(text)
                THEN SentenceEnds(text, limit - 1,
                                  Max(current_pos + CHUNK_SIZE \div 2, current_pos))
                ELSE {}
        sentence_end == IF ends = {} THEN -1
                        ELSE 1 + CHOOSE i \in ends : \A k \in ends : k <= i
    IN IF sentence_end > current_pos THEN sentence_end ELSE limit

\* the while loop of _split_into_chunks (lines 412-439) from current_pos on
RECURSIVE SplitFrom(_, _, _)
SplitFrom(text, current_pos, chunks) ==
    IF current_pos >= Len(text) THEN chunks
    ELSE LET end_pos == EndPos(text, current_pos)
             chunk == strip(Slice(text, current_pos, end_pos))
             next_chunks == IF chunk # <<>> THEN Append(chunks, chunk) ELSE chunks
         IN SplitFrom(text, Max(end_pos - CHUNK_OVERLAP, end_pos), next_chunks)

\* the test that sends a text that fits to the loop as well
C14_Fits_never(text) == FALSE

\* "if len(text) <= CHUNK_SIZE"
Fits(text) == Len(text) <= CHUNK_SIZE

split_into_chunks(text) ==
    IF Fits(text) THEN <<text>> ELSE SplitFrom(text, 0, <<>>)

\* range(min(100, len(merged), len(current)), 10, -5)
OverlapLens(merged, current) ==
    LET first == Min(OverlapFrom, Min(Len(merged), Len(current)))
    IN {n \in OverlapStop + 1 .. first : (first - n) % OverlapStep = 0}

\* one round of "for i in range(1, len(translations))" (lines 461-475)
MergeOne(merged, current) ==
    LET found == {n \in OverlapLens(merged, current) :
                    Slice(merged, Len(merged) - n, Len(merged)) = Slice(current, 0, n)}
    IN IF found # {}
       THEN merged \o Slice(current, CHOOSE n \in found : \A k \in found : k <= n,
                            Len(current))
       ELSE merged \o <<"\n", "\n">> \o current

RECURSIVE MergeFrom(_, _)
MergeFrom(merged, rest) ==
    IF rest = <<>> THEN merged
    ELSE MergeFrom(MergeOne(merged, Head(rest)), Tail(rest))

\* _merge_translations, called with a list that is not empty
merge_translations(translations) ==
    IF Len(translations) = 1 THEN translations[1]
    ELSE MergeFrom(translations[1], Tail(translations))

InitChunks ==
    /\ InitNoJobs
    /\ \E text \in Strings(DocChars, MaxDoc) :
         call = [fn |-> "_split_into_chunks", text |-> text, pc |-> "split",
                 chunks |-> <<>>, merged |-> None]

SplitText ==
    /\ call.fn = "_split_into_chunks"
    /\ call.pc = "split"
    /\ call' = [call EXCEPT !.pc = "merge", !.chunks = split_into_chunks(call.text)]
    /\ UNCHANGED <<jobVars, hubVars, brVars>>

\* "_merge_translations(translations) if translations else None", with every
\* chunk given back by the model as it was sent
MergeChunks ==
    /\ call.fn = "_split_into_chunks"
    /\ call.pc = "merge"
    /\ call' = [call EXCEPT !.pc = "merged",
                            !.merged = IF call.chunks # <<>>
                                       THEN merge_translations(call.chunks)
                                       ELSE None]
    /\ UNCHANGED <<jobVars, hubVars, brVars>>

SpecChunks == InitChunks /\ [][SplitText \/ MergeChunks]_vars

\* The merge alone, on the lists its callers build: one string that is
\* not empty for each chunk ("if translated: ... else: append(chunk)", lines
\* 661-667 and 557-562)
PartChars == {"a", "b"}

Parts == Strings(PartChars, MaxPart) \ {<<>>}

InitMerge ==
    /\ InitNoJobs
    /\ \E n \in 1 .. MaxParts : \E translations \in [1 .. n -> Parts] :
         call = [fn |-> "_merge_translations", translations |-> translations,
                 returned |-> FALSE, merged |-> <<>>]

MergeTranslations ==
    /\ call.fn = "_merge_translations"
    /\ ~call.returned
    /\ call' = [call EXCEPT !.returned = TRUE,
                            !.merged = merge_translations(call.translations)]
    /\ UNCHANGED <<jobVars, hubVars, brVars>>

SpecMerge == InitMerge /\ [][MergeTranslations]_vars

(***************************************************************************)
(* llm_service.translate_and_highlight: language detection, the cleanup of *)
(* a Korean text or the translation of another, validation, highlights.    *)
(* "k" stands for a character of the Hangul ranges, "a" for a Latin one.   *)
(***************************************************************************)
MinText == 2        \* the 20 of "len(text.strip()) < 20", scaled to MaxText
translate_max_retries == 2

LangChars == {"a", "k"}

\* Optional[str]: None, or a str
NoText == [some |-> FALSE, value |-> <<>>]
Text(s) == [some |-> TRUE, value |-> s]

\* the truth value of an Optional[str]
HasText(t) == t.some /\ t.value # <<>>

\* _get_korean_ratio < 0.5: letters counted without whitespace, digits and
\* punctuation; an empty count gives ratio 0.0
KoreanRatioLow(text) ==
    LET total == {i \in 1 .. Len(text) : text[i] \notin Whitespace \cup {"."}}
        korean == {i \in total : text[i] = "k"}
    IN IF total = {} THEN TRUE ELSE 2 * Cardinality(korean) < Cardinality(total)

\* _validate_translation_result: the bool of the pair it returns
validate_translation_result(source_language, translation) ==
    IF source_language = "ko" THEN TRUE
    ELSE IF ~HasText(translation) THEN FALSE
    ELSE ~KoreanRatioLow(translation.value)

\* what _detect_language returns: "result.strip().lower()[:2]" or None
Languages == {"ko", "en", None}

\* the answer of the model to one chunk: nothing, or a text
ChunkAnswers == {NoText} \cup {Text(t) : t \in Strings(LangChars, 2)}

\* "result = response.output_text; if result: result = result.strip()"
Stripped(answer) == IF HasText(answer) THEN Text(strip(answer.value)) ELSE answer

\* lines 661-667: the translation kept for a chunk, the chunk itself when the
\* model gave none
Translated(chunk, answer) ==
    IF HasText(Stripped(answer)) THEN Stripped(answer).value ELSE chunk

TranslateStart ==
    /\ call.fn = "translate_and_highlight"
    /\ call.pc = "start"
    /\ IF Len(strip(call.text)) < MinText
       THEN call' = [call EXCEPT !.pc = "returned"]
       ELSE \E language \in Languages :
              call' = [call EXCEPT !.language = language,
                                   !.pc = IF language = "ko" THEN "format"
                                          ELSE "translate"]
    /\ UNCHANGED <<jobVars, hubVars, brVars>>

\* lines 651-653: _format_text of a Korean text; the model gives the text
\* back, gives it back changed, or gives nothing
FormatText ==
    /\ call.fn = "translate_and_highlight"
    /\ call.pc = "format"
    /\ \E answer \in {NoText, Text(call.text), Text(Tail(call.text))} :
         call' = [call EXCEPT !.translation = Stripped(answer),
                              !.pc = "highlight"]
    /\ UNCHANGED <<jobVars, hubVars, brVars>>

\* lines 658-680: the chunks are translated and merged once; a translation
\* that fails the validation is logged
TranslateChunks ==
    /\ call.fn = "translate_and_highlight"
    /\ call.pc = "translate"
    /\ LET chunks == split_into_chunks(call.text)
       IN \E answers \in [1 .. Len(chunks) -> ChunkAnswers] :
            LET translations == [i \in 1 .. Len(chunks) |->
                                   Translated(chunks[i], answers[i])]
                full_translation == IF translations # <<>>
                                    THEN Text(merge_translations(translations))
                                    ELSE NoText
                is_valid == IF HasText(full_translation)
                            THEN validate_translation_result(
                                     IF call.language # None THEN call.language
                                     ELSE "unknown", full_translation)
                            ELSE TRUE
            IN call' = [call EXCEPT !.translation = full_translation,
                                    !.chain_runs = @ + 1,
                                    !.is_valid = is_valid,
                                    !.pc = "highlight"]
    /\ UNCHANGED <<jobVars, hubVars, brVars>>

\* lines 654 and 683-684: the highlights of the formatted or translated text,
\* of the text itself when there is none
HighlightTarget(translation, text) ==
    IF HasText(translation) THEN translation.value ELSE text

ExtractOfTarget ==
    /\ call.fn = "translate_and_highlight"
    /\ call.pc = "highlight"
    /\ LET target == HighlightTarget(call.translation, call.text)
       IN \E highlights_raw \in {<<>>, <<target>>, <<Slice(target, 0, 1)>>} :
            call' = [call EXCEPT !.highlights = extract_highlights(target, highlights_raw),
                                 !.pc = "returned"]
    /\ UNCHANGED <<jobVars, hubVars, brVars>>

InitTranslate ==
    /\ InitNoJobs
    /\ \E text \in Strings(LangChars \cup {" "}, MaxText) :
         call = [fn |-> "translate_and_highlight", text |-> text, pc |-> "start",
                 language |-> None, translation |-> NoText, highlights |-> None,
                 chain_runs |-> 0, is_valid |-> TRUE]

NextTranslate == TranslateStart \/ FormatText \/ TranslateChunks \/ ExtractOfTarget

SpecTranslate == InitTranslate /\ [][NextTranslate]_vars

(***************************************************************************)
(* The choice of the fetcher for a URL: _fetch_external_content, then      *)
(* fetch_url_content.  A URL is scheme://[userinfo@]host[:port]path.       *)
(***************************************************************************)
MaxCalls == 2       \* classifications of one URL

INACCESSIBLE_DOMAINS == {"youtube.com", "www.youtube.com", "m.youtube.com",
                         "youtu.be", "www.youtu.be"}

UrlHosts == {"x.com", "X.com", "mobile.twitter.com", "youtube.com",
             "www.youtube.com", "YouTu.be", "github.com", "example.com"}
UrlPaths == {"/", "/o/r/blob/main/f.md", "/watch"}

ParsedUrls ==
    [scheme : {"http", "https"}, userinfo : {"", "user"}, host : UrlHosts,
     port : {"", "443"}, path : UrlPaths]

\* str.lower() of a host name
HostLower(host) ==
    CASE host = "X.com" -> "x.com"
      [] host = "YouTu.be" -> "youtu.be"
      [] OTHER -> host

\* urlparse(url).netloc.lower(): the authority with its userinfo and port
ParsedNetloc(url) ==
    [userinfo |-> url.userinfo, host |-> HostLower(url.host), port |-> url.port]

\* "netloc in DOMAINS": the netloc is one of the bare host names
NetlocIn(url, domains) ==
    LET n == ParsedNetloc(url)
    IN n.userinfo = "" /\ n.port = "" /\ n.host \in domains

\* GITHUB_BLOB_PATTERN.match(url): ^https?://github\.com/owner/repo/blob/...
IsGithubBlob(url) ==
    /\ url.userinfo = "" /\ url.port = ""
    /\ url.host = "github.com"
    /\ url.path = "/o/r/blob/main/f.md"

\* the branch of _fetch_external_content (lines 202, 227, 253) and, below it,
\* of fetch_url_content (lines 462-482) that a URL takes
classify(url) ==
    IF NetlocIn(url, TWITTER_DOMAINS) THEN "social_post"
    ELSE IF NetlocIn(url, YOUTUBE_DOMAINS) THEN "video"
    ELSE IF NetlocIn(url, INACCESSIBLE_DOMAINS) THEN "inaccessible"
    ELSE IF NetlocIn(url, TWITTER_DOMAINS) THEN "social_post"
    ELSE IF IsGithubBlob(url) THEN "raw_file"
    ELSE "generic_page"

InitClassify ==
    /\ InitNoJobs
    /\ \E url \in ParsedUrls : call = [fn |-> "classify", url |-> url, classes |-> <<>>]

\* one round of a job fetches the URL: the URL is classified again
Classify ==
    /\ call.fn = "classify"
    /\ Len(call.classes) < MaxCalls
    /\ call' = [call EXCEPT !.classes = Append(@, classify(call.url))]
    /\ UNCHANGED <<jobVars, hubVars, brVars>>

SpecClassify == InitClassify /\ [][Classify]_vars

(***************************************************************************)
(* TwitterScraper.scrape for one tweet.  The content of a tweet is "text"  *)
(* or "link" (nothing but a t.co link); the browser gives "article" (the   *)
(* long-form text), "unsupported" (the page 'This page is not supported')  *)
(* or fails.                                                               *)
(***************************************************************************)
\* TwitterScrapingResult, with the defaults of the dataclass
EmptyResult == [content |-> "", success |-> FALSE, article_url |-> None,
                screen_name |-> None, tweet_id |-> None]

\* _scrape_via_fxtwitter: content and success; the article URL of the
\* redirect goes to og_description only
scrape_via_fxtwitter(net) ==
    IF net.fxtwitter # 200 THEN EmptyResult
    ELSE [EmptyResult EXCEPT !.content = net.tweet, !.success = net.tweet # ""]

\* _scrape_via_syndication: article_url is the target of the t.co link when
\* it holds "/i/article/"
scrape_via_syndication(net) ==
    IF net.syndication # 200 THEN EmptyResult
    ELSE [content |-> net.tweet, success |-> net.tweet # "",
          article_url |-> IF net.tweet = "link" /\ net.redirect = "article"
                          THEN "/i/article/1" ELSE None,
          screen_name |-> "u", tweet_id |-> "1"]

\* _scrape_via_oembed: the text of the first <p> of the embed HTML
scrape_via_oembed(net) ==
    IF net.oembed # 200 THEN EmptyResult
    ELSE [EmptyResult EXCEPT !.content = net.tweet, !.success = net.tweet # ""]

\* _scrape_internal: the browser fetch
scrape_internal(net) ==
    IF net.browser = "failed" THEN EmptyResult
    ELSE [EmptyResult EXCEPT !.content = net.browser, !.success = TRUE]

\* "async with semaphore" is left with the result
ScrapeReturn(result, escalated) ==
    /\ call' = [call EXCEPT !.pc = "returned", !.result = result,
                            !.escalated = escalated]
    /\ sem_value' = sem_value + 1

\* lines 132-136
ScrapeStart ==
    /\ call.fn = "scrape"
    /\ call.pc = "start"
    /\ sem_value > 0
    /\ sem_value' = sem_value - 1
    /\ call' = [call EXCEPT !.pc = "fxtwitter"]
    /\ UNCHANGED <<jobVars, hubVars, fetchers, browsers>>

\* lines 135-154
ScrapeFxtwitter ==
    /\ call.fn = "scrape"
    /\ call.pc = "fxtwitter"
    /\ LET result == scrape_via_fxtwitter(call.net)
           article_result == scrape_internal(call.net)
       IN IF result.success /\ result.content # ""
          THEN IF result.article_url # None
                  /\ article_result.success /\ article_result.content # ""
                  /\ article_result.content # "unsupported"
               THEN ScrapeReturn(article_result, TRUE)
               ELSE ScrapeReturn(result, result.article_url # None)
          ELSE /\ call' = [call EXCEPT !.pc = "syndication"]
               /\ UNCHANGED sem_value
    /\ UNCHANGED <<jobVars, hubVars, fetchers, browsers>>

\* lines 156-177
ScrapeSyndication ==
    /\ call.fn = "scrape"
    /\ call.pc = "syndication"
    /\ LET result == scrape_via_syndication(call.net)
           article_result == scrape_internal(call.net)
           escalates == /\ result.article_url # None
                        /\ result.screen_name # None /\ result.tweet_id # None
       IN IF result.success /\ result.content # ""
          THEN IF escalates
                  /\ article_result.success /\ article_result.content # ""
                  /\ article_result.content # "unsupported"
               THEN ScrapeReturn(article_result, TRUE)
               ELSE ScrapeReturn(result, escalates)
          ELSE /\ call' = [call EXCEPT !.pc = "oembed"]
               /\ UNCHANGED sem_value
    /\ UNCHANGED <<jobVars, hubVars, fetchers, browsers>>

\* lines 179-186
ScrapeOembed ==
    /\ call.fn = "scrape"
    /\ call.pc = "oembed"
    /\ LET result == scrape_via_oembed(call.net)
       IN IF result.success /\ result.content # ""
          THEN ScrapeReturn(result, FALSE)
          ELSE ScrapeReturn(scrape_internal(call.net), TRUE)
    /\ UNCHANGED <<jobVars, hubVars, fetchers, browsers>>

\* what the endpoints answer for the tweet
Networks ==
    [tweet : {"text", "link"}, redirect : {"article", "page", "error"},
     fxtwitter : {200, 404}, syndication : {200, 404}, oembed : {200, 404},
     browser : {"article", "unsupported", "failed"}]

InitScrape ==
    /\ db = <<>>
    /\ users = [u \in {USER} |-> [interests |-> <<>>]]
    /\ jobs = [j \in JobIds |-> IdleJob]
    /\ http = NoResponse
    /\ sse_queues = <<>>
    /\ streams = <<>>
    /\ pubs = <<>>
    /\ fetchers = <<>>
    /\ sem_value = MAX_CONCURRENT_REQUESTS
    /\ browsers = 0
    /\ \E net \in Networks :
         call = [fn |-> "scrape", pc |-> "start", net |-> net,
                 result |-> EmptyResult, escalated |-> FALSE]

NextScrape == ScrapeStart \/ ScrapeFxtwitter \/ ScrapeSyndication \/ ScrapeOembed

SpecScrape == InitScrape /\ [][NextScrape]_vars

(***************************************************************************)
(* The memo endpoints called by any authenticated user on any memo:        *)
(* GET, PATCH, DELETE /temp-memos/{memo_id}, POST .../reanalyze and        *)
(* GET /temp-memos.                                                        *)
(***************************************************************************)
MaxLimit == 2       \* largest "limit" of a list request
MaxOffset == 1      \* largest "offset" of a list request

USER2 == "user_2"
MEMO2 == "tm_2"
UserIds == {USER, USER2}
MemoIds == {MEMO, MEMO2}

\* created_at: tm_1 is the older memo
created_at(memo_id) == IF memo_id = MEMO THEN 1 ELSE 2

\* GET /temp-memos/{memo_id}
get_temp_memo(current_user, memo_id) ==
    /\ IF get_user_memo(db, memo_id, current_user) = None
       THEN http' = Response("get", current_user, memo_id, FALSE, 404, {})
       ELSE http' = Response("get", current_user, memo_id, FALSE, 200, {memo_id})
    /\ UNCHANGED <<db, jobs, users, hubVars, brVars, call>>

\* PATCH /temp-memos/{memo_id} with a body that sets memo_type or leaves it
update_temp_memo(current_user, memo_id, memo_type) ==
    /\ IF get_user_memo(db, memo_id, current_user) = None
       THEN /\ http' = Response("update", current_user, memo_id, FALSE, 404, {})
            /\ UNCHANGED db
       ELSE /\ db' = [db EXCEPT
                        ![memo_id].memo_type =
                            IF memo_type # None THEN memo_type ELSE @,
                        ![memo_id].updated_at = UtcNow]
            /\ http' = Response("update", current_user, memo_id, FALSE, 200,
                                {memo_id})
    /\ UNCHANGED <<jobs, users, hubVars, brVars, call>>

\* DELETE /temp-memos/{memo_id}
delete_temp_memo(current_user, memo_id) ==
    /\ IF get_user_memo(db, memo_id, current_user) = None
       THEN /\ http' = Response("delete", current_user, memo_id, FALSE, 404, {})
            /\ UNCHANGED db
       ELSE /\ db' = [m \in DOMAIN db \ {memo_id} |-> db[m]]
            /\ http' = Response("delete", current_user, memo_id, FALSE, 204, {})
    /\ UNCHANGED <<jobs, users, hubVars, brVars, call>>

\* MemoRepository.list_user_memos; ilike is the set of rows whose context or
\* summary matches the search pattern. The one caller passes a number as
\* search, and "if search:" is false for 0 as it is for None
list_user_memos(rows, user_id, memo_type, search, limit, offset, ilike) ==
    LET owned == {m \in DOMAIN rows : rows[m].user_id = user_id}
        typed == IF memo_type # None
                 THEN {m \in owned : rows[m].memo_type = memo_type} ELSE owned
        found == IF search # 0 THEN typed \cap ilike ELSE typed
        \* order_by(desc(created_at)): the number of rows in front of m
        rank(m) == Cardinality({n \in found : created_at(n) > created_at(m)})
    IN {m \in found : offset <= rank(m) /\ rank(m) < offset + limit}

\* GET /temp-memos?type=..&limit=..&offset=..: the call passes limit and
\* offset by position, where list_user_memos has search and limit
list_temp_memos(current_user, type, limit, offset, ilike) ==
    /\ http' = Response("list", current_user, None, FALSE, 200,
                        list_user_memos(db, current_user, type, limit, offset,
                                        0, ilike))
    /\ UNCHANGED <<db, jobs, users, hubVars, brVars, call>>

AccessRows ==
    [user_id : UserIds, memo_type : {"EXTERNAL_SOURCE"},
     source_url : {GENERIC_URL}, analysis_status : {"analyzing", "completed"},
     analysis_error : {None}, summary : {None}, updated_at : {None},
     results : {NoResults}]

InitAccess ==
    /\ \E ids \in SUBSET MemoIds : db \in [ids -> AccessRows]
    /\ users = [u \in UserIds |-> [interests |-> <<>>]]
    /\ jobs = [j \in JobIds |-> IdleJob]
    /\ http = NoResponse
    /\ sse_queues = <<>> /\ streams = <<>> /\ pubs = <<>>
    /\ fetchers = <<>> /\ sem_value = MAX_CONCURRENT_REQUESTS /\ browsers = 0
    /\ call = NoCall

GetMemo == \E u \in UserIds, m \in MemoIds : get_temp_memo(u, m)

UpdateMemo ==
    \E u \in UserIds, m \in MemoIds, t \in {None, "NEW_IDEA"} :
        update_temp_memo(u, m, t)

DeleteMemo == \E u \in UserIds, m \in MemoIds : delete_temp_memo(u, m)

ReanalyzeMemo ==
    \E u \in UserIds, m \in MemoIds, force \in BOOLEAN : reanalyze_memo(u, m, force)

ListMemos ==
    \E u \in UserIds, t \in {None} \cup MemoTypes, limit \in 1 .. MaxLimit,
       offset \in 0 .. MaxOffset, ilike \in SUBSET MemoIds :
        list_temp_memos(u, t, limit, offset, ilike)

NextAccess == GetMemo \/ UpdateMemo \/ DeleteMemo \/ ReanalyzeMemo \/ ListMemos

SpecAccess == InitAccess /\ [][NextAccess]_vars

(***************************************************************************)
(* The length of the content a fetcher returns to the pipeline.            *)
(***************************************************************************)
MaxPage == 5         \* characters of the text extracted from a page
max_length == 2      \* the 10000 of fetch_url_content and of the subtitles
MaxMainText == 1     \* the 5000 of the tweet page's fallback text

Ellipsis == <<".", ".", ".">>

\* "if content and len(content) > max_length: content = content[:max_length] + '...'"
LimitContent(content, n) ==
    IF content # <<>> /\ Len(content) > n
    THEN Slice(content, 0, n) \o Ellipsis ELSE content

\* The fetchers of _fetch_external_content and where their text comes from:
\* the generic page and the raw file of fetch_url_content, the subtitles of
\* youtube_scraper, and the three extractions of _extract_tweet_content
\* (tweetText elements, article paragraphs, the main area's text)
FetcherKinds == {"html", "raw", "youtube", "tweet_text", "article", "main_text"}

\* the content returned for the text the fetcher extracted
FetchedContent(kind, text) ==
    CASE kind \in {"html", "raw", "youtube"} -> LimitContent(text, max_length)
      [] kind \in {"tweet_text", "article"} -> text
      [] kind = "main_text" -> IF text # <<>> THEN Slice(text, 0, MaxMainText)
                               ELSE <<>>

\* the maximum length written in the fetcher's code
FetcherMax(kind) ==
    IF kind \in {"html", "raw", "youtube"} THEN max_length ELSE MaxMainText

InitFetchContent ==
    /\ InitNoJobs
    /\ \E kind \in FetcherKinds, text \in Strings(Chars, MaxPage) :
         call = [fn |-> "fetch", kind |-> kind, text |-> text,
                 returned |-> FALSE, content |-> <<>>]

FetchContent ==
    /\ call.fn = "fetch" /\ ~call.returned
    /\ call' = [call EXCEPT !.returned = TRUE,
                            !.content = FetchedContent(call.kind, call.text)]
    /\ UNCHANGED <<jobVars, hubVars, brVars>>

SpecFetchContent == InitFetchContent /\ [][FetchContent]_vars

(***************************************************************************)
(* The LLM calls of extract_context_and_interests: the combined call and   *)
(* the calls it falls back to.                                             *)
(***************************************************************************)
\* What the provider does with a JSON request: the request raises, or the
\* output text is no JSON (the empty text included), a JSON value that is no
\* object (null, a number, a string), an object whose "context" is null, or
\* an object with str fields and an array
JsonAnswers == {"provider_error", "not_json", "json_scalar",
                "object_null_field", "object"}

\* What the provider does with a plain-text request
TextAnswers == {"provider_error", "empty", "text"}

\* the exception, if any, of the try block after the request returned:
\* json.loads, result.get(...), .strip(), the loop over raw_interests
ParseRaises(answer) ==
    CASE answer = "not_json" -> "JSONDecodeError"
      [] answer = "json_scalar" -> "AttributeError"
      [] answer = "object_null_field" -> "AttributeError"
      [] OTHER -> None

\* the call has ended: with a tuple, or with an LLMError
CallReturn(c, value) == [c EXCEPT !.pc = "returned", !.value = value]
CallRaise(c) == [c EXCEPT !.pc = "raised", !.value = "LLMError"]

\* lines 188-226 and 242-257: the first request, combined when the user has
\* interests and context+summary when not (_extract_context_and_summary),
\* and the except clause it ends in
FirstCall ==
    /\ call.fn = "extract_context_and_interests" /\ call.pc = "start"
    /\ LET name == IF call.user_interests # <<>> THEN "combined"
                   ELSE "context_summary"
           c == [call EXCEPT !.calls = <<name>>]
       IN call' =
            IF call.json = "provider_error" THEN CallRaise(c)
            ELSE IF ParseRaises(call.json) = "JSONDecodeError"
            THEN [c EXCEPT !.pc = "fallback_context"]
            ELSE IF ParseRaises(call.json) # None THEN CallRaise(c)
            ELSE CallReturn(c, <<"context",
                                 IF name = "combined" THEN "matched" ELSE "[]",
                                 "summary">>)
    /\ UNCHANGED <<jobVars, hubVars, brVars>>

\* "context = await extract_context(text, memo_type)" in the except clause
\* (lines 251 and 317)
FallbackContext ==
    /\ call.fn = "extract_context_and_interests" /\ call.pc = "fallback_context"
    /\ LET c == [call EXCEPT !.calls = Append(@, "context")]
           context == IF call.context = "text" THEN "context" ELSE None
       IN call' =
            IF call.context = "provider_error" THEN CallRaise(c)
            ELSE IF call.user_interests = <<>>
            THEN CallReturn(c, <<context, "[]", None>>)
            ELSE [c EXCEPT !.pc = "fallback_interests", !.value = context]
    /\ UNCHANGED <<jobVars, hubVars, brVars>>

\* "interests = await match_interests(text, user_interests)" (line 252)
FallbackInterests ==
    /\ call.fn = "extract_context_and_interests" /\ call.pc = "fallback_interests"
    /\ LET c == [call EXCEPT !.calls = Append(@, "interests")]
       IN call' =
            IF call.interests = "provider_error" THEN CallRaise(c)
            ELSE CallReturn(c, <<call.value,
                                 IF call.interests = "text" THEN "matched"
                                 ELSE "[]",
                                 None>>)
    /\ UNCHANGED <<jobVars, hubVars, brVars>>

InitLlmCalls ==
    /\ InitNoJobs
    /\ \E user_interests \in Lists(UserTags, MaxTags), json \in JsonAnswers,
          context \in TextAnswers, interests \in TextAnswers :
         call = [fn |-> "extract_context_and_interests",
                 user_interests |-> user_interests, json |-> json,
                 context |-> context, interests |-> interests,
                 pc |-> "start", calls |-> <<>>, value |-> None]

NextLlmCalls == FirstCall \/ FallbackContext \/ FallbackInterests

SpecLlmCalls == InitLlmCalls /\ [][NextLlmCalls]_vars

(***************************************************************************)
(* Properties of the job state machine.                                    *)
(***************************************************************************)
HasMemo == MEMO \in DOMAIN db
Status == db[MEMO].analysis_status
Error == db[MEMO].analysis_error
Finished == {"completed", "failed"}
Events == sse_queues[OBSERVER]
IsComplete(ev) == ev.event_type = "complete"
CompleteAt == {i \in 1 .. Len(Events) : IsComplete(Events[i])}

\* C1: when all retry_count attempts of a run raise, the run ends with the
\* memo in status 'failed' and a non-empty error message
C1_AllAttemptsRaise ==
    \A j \in JobIds :
        (jobs[j].pc = "done" /\ jobs[j].nraised = retry_count)
            => /\ Status = "failed"
               /\ Truthy(Error)
               /\ jobs[j].final = "failed"

C1_Witness ==
    \E j \in JobIds : jobs[j].pc = "done" /\ jobs[j].nraised = retry_count
                      /\ jobs[j].delays = <<1, 3>>

\* a step of a request handler: it answers, and schedules a job if it accepts
C2_Scheduling == \E j \in JobIds : jobs[j].pc = "idle" /\ jobs'[j].pc = "scheduled"

C2_Request == http' # http \/ C2_Scheduling

C3_ByRequest == C2_Scheduling /\ http'.op = "reanalyze"

\* C3: every change of analysis_status is pending->analyzing (job start),
\* analyzing->completed or analyzing->failed (job end), completed/failed->pending
\* (reanalyze) or analyzing->pending (forced reanalyze)
C3_OnlyListedTransitions ==
    [][(HasMemo /\ db'[MEMO].analysis_status # Status)
       => \/ Status = "pending" /\ db'[MEMO].analysis_status = "analyzing"
             /\ ~C3_ByRequest
          \/ Status = "analyzing" /\ db'[MEMO].analysis_status \in Finished
             /\ ~C3_ByRequest
          \/ Status \in Finished /\ db'[MEMO].analysis_status = "pending"
             /\ C3_ByRequest
          \/ Status = "analyzing" /\ db'[MEMO].analysis_status = "pending"
             /\ C3_ByRequest /\ http'.force]_vars

\* C4: analysis_error is non-null only while analysis_status is 'failed'
C4_ErrorOnlyWhenFailed ==
    HasMemo => (Error # None => Status = "failed")

\* C5: a round whose fetch and LLM call return without error completes the
\* job in that round: status 'completed', no further round, and the complete
\* event with status 'completed' is the last event broadcast
C5_CleanRoundCompletes ==
    \A j \in JobIds :
        jobs[j].clean
            => /\ jobs[j].pc = "done"
               /\ jobs[j].final = "completed"
               /\ Status = "completed"
               /\ Events # <<>>
               /\ Events[Len(Events)] = CompleteEvent(MEMO, "completed", None)

\* the thread of job j is between its scheduling and its end
C6_Running(j) == jobs[j].pc \in {"scheduled", "loaded", "fetch", "attempt"}

\* C6: every job that set the memo to 'analyzing' ends in 'completed' or
\* 'failed': a job that is done has written one of the two, and from some
\* point on no job is running and the memo is 'completed' or 'failed'
C6_AnalyzingEnds ==
    /\ [](\A j \in JobIds : jobs[j].pc = "done" => jobs[j].final \in Finished)
    /\ <>[](/\ \A j \in JobIds : ~C6_Running(j)
            /\ HasMemo => Status \in Finished)

\* the job ended after a fetch whose bypass gave up after max_retries sessions
C6_Witness ==
    \E j \in JobIds : /\ jobs[j].pc = "done"
                      /\ jobs[j].bypass_failed
                      /\ jobs[j].final = "failed"
                      /\ Status = "failed"

\* C10: the events of a run are the 'start' progress event first (the memo
\* is 'analyzing' with no error by then), progress events after it, and one
\* complete event, last, carrying the committed final status
C10_EventOrder ==
    /\ Events # <<>>
         => /\ Events[1] = ProgressEvent(MEMO, "start")
            /\ HasMemo /\ Status # "pending"
    /\ (Events # <<>> /\ CompleteAt = {})
         => /\ Status = "analyzing" /\ Error = None
            /\ \A j \in JobIds : jobs[j].pc # "done"
    /\ \A i \in 2 .. Len(Events) : Events[i] # ProgressEvent(MEMO, "start")
    /\ CompleteAt \subseteq {Len(Events)}
    /\ CompleteAt # {}
         => /\ Events[Len(Events)].status = Status
            /\ Status \in Finished
            /\ Events[Len(Events)].memo_id = MEMO
    /\ \A j \in JobIds : jobs[j].pc = "done" => CompleteAt = {Len(Events)}

C10_Witness ==
    /\ Len(Events) >= 3
    /\ CompleteAt = {Len(Events)}
    /\ \E i \in 2 .. Len(Events) - 1 : ~IsComplete(Events[i])

(***************************************************************************)
(* Properties of the SSE hub.                                              *)
(***************************************************************************)
\* how often the event is in what subscriber c was given: its queue and the
\* events its stream has got
C7_Count(queues, strs, c, ev) ==
    Cardinality({i \in 1 .. Len(queues[c]) : queues[c][i] = ev})
    + (IF ev \in strs[c].got THEN 1 ELSE 0)

\* C7: an event broadcast while a subscriber is registered is enqueued to it
\* exactly once, whatever the other job threads and subscribers do meanwhile,
\* and no broadcast fails on a registry that changed under it
C7_BroadcastReachesRegistered ==
    /\ [](\A p \in JobIds : ~pubs[p].error)
    /\ [](\A c \in DOMAIN sse_queues :
            /\ streams[c].ngot = Cardinality(streams[c].got)
            /\ \A p \in JobIds :
                 C7_Count(sse_queues, streams, c, ProgressEvent(p, "start")) <= 1)
    /\ [][\A p \in JobIds :
            (pubs[p].pc = "broadcast" /\ pubs'[p].pc = "idle")
              => \A c \in pubs[p].snap \cap DOMAIN sse_queues' :
                   C7_Count(sse_queues', streams', c, ProgressEvent(p, "start")) = 1]_vars

C7_Witness ==
    /\ OBSERVER \in DOMAIN sse_queues
    /\ streams[BYSTANDER].pc = "closed"
    /\ streams[OBSERVER].ngot >= 1
    /\ \A p \in JobIds :
         /\ pubs[p].sent /\ pubs[p].pc = "idle"
         /\ C7_Count(sse_queues, streams, OBSERVER, ProgressEvent(p, "start")) = 1

\* C9: the client_id of a subscriber that went away is eventually removed
\* from the registry
C9_DisconnectUnregisters ==
    \A c \in ClientIds :
        (streams[c].pc # "none" /\ ~streams[c].connected)
            ~> (c \notin DOMAIN sse_queues)

(***************************************************************************)
(* Properties of the browser sessions.                                     *)
(***************************************************************************)
\* C8: at most MAX_CONCURRENT_REQUESTS browsers are open at any time, over
\* the tweet scrapes, the JS renderings and the bypass sessions of all jobs
C8_BrowsersBounded == browsers <= MAX_CONCURRENT_REQUESTS

(***************************************************************************)
(* Properties of the text functions.                                       *)
(***************************************************************************)
\* C11: every highlight returned for the text with start other than -1 has
\* text[start:end] equal to its own text, also when it was located by the
\* shortened prefix
C11_OffsetsSliceText ==
    (call.returned /\ call.highlights # None)
        => \A i \in 1 .. Len(call.highlights) :
             LET h == call.highlights[i]
             IN h.start # -1 => Slice(call.text, h.start, h.end) = h.text

\* the tag is in the list, compared case-insensitively
C12_InList(tag, user_interests) ==
    \E i \in 1 .. Len(user_interests) : lower(user_interests[i]) = lower(tag)

\* C12: on the combined path and on the fallback path, no returned interest
\* is absent, compared case-insensitively, from the supplied list
C12_OnlySuppliedInterests ==
    call.returned
        => \A i \in 1 .. Len(call.interests) :
             C12_InList(call.interests[i], call.user_interests)

\* the model answered with an invented tag and with a tag of the list in
\* another spelling; the latter alone is returned
C12_Witness ==
    /\ call.returned
    /\ call.user_interests # <<>>
    /\ call.interests # <<>>
    /\ \E i \in 1 .. Len(call.answer) :
         /\ call.answer[i].is_str
         /\ ~C12_InList(strip(call.answer[i].value), call.user_interests)
    /\ \E i \in 1 .. Len(call.answer) :
         /\ call.answer[i].is_str
         /\ call.answer[i].value \notin UserTags
         /\ C12_InList(strip(call.answer[i].value), call.user_interests)

\* the characters of s that are no whitespace, in order
RECURSIVE C13_Content(_)
C13_Content(s) ==
    IF s = <<>> THEN <<>>
    ELSE (IF Head(s) \in Whitespace THEN <<>> ELSE <<Head(s)>>) \o C13_Content(Tail(s))

\* a is b with some characters left out
RECURSIVE C13_Within(_, _)
C13_Within(a, b) ==
    IF a = <<>> THEN TRUE
    ELSE IF b = <<>> THEN FALSE
    ELSE IF Head(a) = Head(b) THEN C13_Within(Tail(a), Tail(b))
    ELSE C13_Within(a, Tail(b))

\* C13: for a text longer than the chunk size, the merge of its chunks holds,
\* whitespace aside, every character of the text: nothing is lost at a chunk
\* boundary
C13_MergeKeepsContent ==
    (call.pc = "merged" /\ Len(call.text) > CHUNK_SIZE)
        => IF call.merged = None THEN C13_Content(call.text) = <<>>
           ELSE C13_Within(C13_Content(call.text), C13_Content(call.merged))

\* C14: a text of at most chunk_size characters is split into the one-element
\* list of the text itself, unchanged
C14_ShortTextOneChunk ==
    (call.pc # "split" /\ Len(call.text) <= CHUNK_SIZE)
        => call.chunks = <<call.text>>

\* a text of exactly chunk_size characters with whitespace at both ends
C14_Witness ==
    /\ call.pc = "merged"
    /\ Len(call.text) = CHUNK_SIZE
    /\ call.text[1] = " " /\ call.text[CHUNK_SIZE] = " "
    /\ call.chunks = <<call.text>>
    /\ call.merged = call.text

\* C15: for a text detected as Korean, the translation returned (stored as
\* translated_content) is null and every highlight offset refers to the text
\* that was fetched
C15_NativeNotTranslated ==
    (call.pc = "returned" /\ call.language = "ko")
        => /\ call.translation = NoText
           /\ call.highlights # None
                => \A i \in 1 .. Len(call.highlights) :
                     LET h == call.highlights[i]
                     IN h.start # -1 => Slice(call.text, h.start, h.end) = h.text

\* C16: a merged translation that fails the validation has the translation
\* chain run again, up to the fixed number of retries, before the best-effort
\* translation is returned
C16_InvalidTranslationRetried ==
    (call.pc = "returned" /\ call.chain_runs > 0 /\ ~call.is_valid)
        => /\ call.chain_runs = 1 + translate_max_retries
           /\ call.translation # NoText

\* C17: after the bypass reported its final failure for the URL of a job, no
\* later attempt of the same run fetches the URL and invokes the bypass
\* again: the log of one run holds at most one final failure of the bypass
C17_BypassFailureTerminal ==
    Len(call.bypass_failures) <= 1

(***************************************************************************)
(* Properties of the choice of the fetcher.                                *)
(***************************************************************************)
C19_Classes == {"social_post", "video", "inaccessible", "raw_file", "generic_page"}

\* C19: every URL gets exactly one fetcher class, the same at every call; a
\* host in none of the lists gets the generic page fetch, and a URL on a
\* video-hosting host never does
C19_ClassifyTotalAndSafe ==
    /\ \A i \in 1 .. Len(call.classes) :
         /\ call.classes[i] \in C19_Classes
         /\ call.classes[i] = call.classes[1]
         /\ HostLower(call.url.host) \in {"example.com"}
              => call.classes[i] = "generic_page"
         /\ HostLower(call.url.host) \in INACCESSIBLE_DOMAINS
              => call.classes[i] # "generic_page"

(***************************************************************************)
(* Properties of the tweet scrape.                                         *)
(***************************************************************************)
\* C18: for a tweet whose content is only a link that resolves to a
\* long-form article, scrape escalates to the browser and returns the
\* article, not the link text, whichever metadata endpoint answered first
C18_LinkTweetGivesArticle ==
    (/\ call.pc = "returned"
     /\ call.net.tweet = "link" /\ call.net.redirect = "article"
     /\ call.net.browser = "article"
     /\ 200 \in {call.net.fxtwitter, call.net.syndication})
        => /\ call.escalated
           /\ call.result.content = "article"

(***************************************************************************)
(* Frame of a job run.                                                     *)
(***************************************************************************)
\* the columns of the note that are no analysis fields
C20_OtherFields == {"user_id", "memo_type", "source_url", "updated_at"}

\* C20: a step of a job run leaves every field of its note other than the
\* analysis fields unchanged: owner, type, source URL and timestamps
C20_JobWritesAnalysisFieldsOnly ==
    [][(HasMemo /\ ~C2_Request)
         => \A f \in C20_OtherFields : db'[MEMO][f] = db[MEMO][f]]_vars

C23_LastErrorRecorded ==
    \A j \in JobIds :
        jobs[j].final = "failed"
            => /\ call.errors # <<>>
               /\ Error = call.errors[Len(call.errors)]
               /\ Events # <<>>
               /\ Events[Len(Events)] =
                      CompleteEvent(MEMO, "failed", call.errors[Len(call.errors)])
               /\ Events[Len(Events)].error = Error

\* the run failed after a first attempt and a last attempt that raised
\* different exceptions
C23_Witness ==
    \E j \in JobIds :
        /\ jobs[j].final = "failed"
        /\ Len(call.errors) = retry_count
        /\ call.errors[1] # call.errors[retry_count]

\* C24: once a run has ended in which the combined LLM call returned a
\* summary, the memo's summary column holds that summary
C24_SummaryStored ==
    \A j \in JobIds :
        (jobs[j].pc = "done" /\ jobs[j].clean) => db[MEMO].summary = "summary"

\* C25: the content a fetcher returns is never longer than the maximum
\* length of that fetcher
C25_ContentWithinMax ==
    call.returned => Len(call.content) <= FetcherMax(call.kind)

\* the steps of the progress events broadcast by the current step
C26_NewSteps ==
    {Events'[i].step : i \in Len(Events) + 1 .. Len(Events')}

\* C26: an attempt whose fetch and LLM call returned broadcasts 'translate'
\* (the translation and highlight step runs) when the memo is an
\* EXTERNAL_SOURCE whose content was fetched, and 'translate_skip' and no
\* 'translate' otherwise
C26_TranslateOrSkip ==
    [][\A j \in JobIds :
         (jobs[j].pc = "attempt" /\ ~jobs[j].clean /\ jobs'[j].clean)
           => IF /\ db[MEMO].memo_type = "EXTERNAL_SOURCE"
                 /\ "scrape_done" \in C26_NewSteps
              THEN "translate" \in C26_NewSteps
              ELSE /\ "translate_skip" \in C26_NewSteps
                   /\ "translate" \notin C26_NewSteps]_vars

\* the provider raised in one of the requests the call issued
C27_ProviderError ==
    \/ call.json = "provider_error"
    \/ "context" \in {call.calls[i] : i \in 1 .. Len(call.calls)}
         /\ call.context = "provider_error"
    \/ "interests" \in {call.calls[i] : i \in 1 .. Len(call.calls)}
         /\ call.interests = "provider_error"

\* C27: with interests the first request is the combined one; when its
\* answer is no structured data (no JSON, or a JSON value that is no object)
\* the context-only and then the interests-only request follow, and the call
\* returns their results; the call raises when the provider raised in one of
\* its requests, and none of the answers that are no structured data makes
\* it raise
C27_CombinedThenFallback ==
    (call.pc \in {"returned", "raised"} /\ call.user_interests # <<>>)
      => /\ call.calls[1] = "combined"
         /\ C27_ProviderError => call.pc = "raised"
         /\ (call.json \in {"not_json", "json_scalar"} /\ ~C27_ProviderError)
              => /\ call.calls = <<"combined", "context", "interests">>
                 /\ call.pc = "returned"

\* C28: every highlight of the returned list was located in the text, by
\* its whole text or by its shortened prefix: its start is 0 or more
C28_UnlocatedDropped ==
    (call.returned /\ call.highlights # None)
        => \A i \in 1 .. Len(call.highlights) : call.highlights[i].start >= 0

\* C29: the returned list has at most max_highlights highlights, whatever
\* the number of items the model answered with
C29_AtMostMax ==
    (call.returned /\ call.highlights # None)
        => Len(call.highlights) <= call.max_highlights

\* the characters of all chunks together
RECURSIVE C30_TotalLen(_)
C30_TotalLen(chunks) ==
    IF chunks = <<>> THEN 0 ELSE Len(Head(chunks)) + C30_TotalLen(Tail(chunks))

\* C30: the chunks of a text longer than CHUNK_SIZE overlap: each chunk after
\* the first starts CHUNK_OVERLAP characters before the end of the one before
\* it, so in a text without whitespace (where strip() removes nothing) the
\* chunks together have CHUNK_OVERLAP characters more than the text for every
\* chunk after the first, and each such chunk starts with the last
\* CHUNK_OVERLAP characters of the one before it
C30_ChunksOverlap ==
    (/\ call.pc # "split"
     /\ Len(call.text) > CHUNK_SIZE
     /\ \A i \in 1 .. Len(call.text) : call.text[i] \notin Whitespace)
      => /\ C30_TotalLen(call.chunks)
              = Len(call.text) + CHUNK_OVERLAP * (Len(call.chunks) - 1)
         /\ \A i \in 2 .. Len(call.chunks) :
              Slice(call.chunks[i], 0, CHUNK_OVERLAP)
                = Slice(call.chunks[i - 1],
                        Len(call.chunks[i - 1]) - CHUNK_OVERLAP,
                        Len(call.chunks[i - 1]))

\* the positions at which the loop of _split_into_chunks starts a chunk
RECURSIVE C31_Starts(_, _)
C31_Starts(text, current_pos) ==
    IF current_pos >= Len(text) THEN {}
    ELSE LET end_pos == EndPos(text, current_pos)
         IN {current_pos}
            \cup C31_Starts(text, Max(end_pos - CHUNK_OVERLAP, end_pos))

\* the ends of the sentences and lines inside the window of CHUNK_SIZE
\* characters that starts at current_pos
C31_Boundaries(text, current_pos) ==
    {i + 1 : i \in SentenceEnds(text,
                                Min(current_pos + CHUNK_SIZE, Len(text)) - 1,
                                current_pos)}

\* C31: a chunk that is not the last one ends at a sentence or line boundary
\* whenever its window of CHUNK_SIZE characters holds one, and at the one
\* nearest the size limit
C31_CutAtBoundary ==
    (call.pc # "split" /\ ~Fits(call.text))
        => \A current_pos \in C31_Starts(call.text, 0) :
             LET end_pos == EndPos(call.text, current_pos)
                 bs == C31_Boundaries(call.text, current_pos)
             IN (end_pos < Len(call.text) /\ bs # {})
                    => /\ end_pos \in bs
                       /\ \A b \in bs : b <= end_pos

\* the lengths from just above OverlapStop to OverlapFrom at which the end
\* of merged is the start of current
C32_Overlaps(merged, current) ==
    {n \in OverlapStop + 1 .. Min(OverlapFrom, Min(Len(merged), Len(current))) :
        Slice(merged, Len(merged) - n, Len(merged)) = Slice(current, 0, n)}

\* merged and current spliced at their longest overlap, or joined by a
\* paragraph break when they have none
C32_Splice(merged, current) ==
    LET found == C32_Overlaps(merged, current)
    IN IF found # {}
       THEN merged \o Slice(current, CHOOSE n \in found : \A k \in found : k <= n,
                            Len(current))
       ELSE merged \o <<"\n", "\n">> \o current

RECURSIVE C32_SpliceAll(_, _)
C32_SpliceAll(merged, rest) ==
    IF rest = <<>> THEN merged
    ELSE C32_SpliceAll(C32_Splice(merged, Head(rest)), Tail(rest))

\* C32: the merge splices each output to the text merged so far at their
\* longest overlap of any length in the range, joins the two in full with a
\* paragraph break when there is none, and returns a single output unchanged
C32_MergeSplicesLongest ==
    (call.fn = "_merge_translations" /\ call.returned)
        => call.merged = C32_SpliceAll(call.translations[1],
                                       Tail(call.translations))

\* sessions, rounds, success and backoff of one call of the bypass
C33_Sessions ==
    /\ call.sessions <= max_retries
    /\ \A i \in 1 .. Len(call.polls) : call.polls[i] <= wait_rounds
    /\ call.last_page = "passed" => (call.pc = "returned" /\ call.success)
    /\ \A attempt \in call.slept :
         attempt + 1 < max_retries /\ attempt + 1 <= call.sessions

\* C33 as stated: one call opens at most 3 sessions of at most 5 rounds each,
\* returns success at the first round that passed, backs off only between
\* sessions, and returns failure only after 3 failed sessions
C33_BypassBounded ==
    call.fn = "fetch_with_cloudflare_bypass"
        => /\ C33_Sessions
           /\ (call.pc = "returned" /\ ~call.success)
                  => call.sessions = max_retries

\* C33, amended: the same for a call that could import the browser library;
\* a call that could not returns failure without a session
C33_BypassBoundedWhenInstalled ==
    call.fn = "fetch_with_cloudflare_bypass"
        => /\ C33_Sessions
           /\ (call.pc = "returned" /\ ~call.success)
                  => IF call.installed THEN call.sessions = max_retries
                     ELSE call.sessions = 0

\* three sessions failed, the second after five rounds, with a backoff after
\* the first and the second only
C33_Witness ==
    /\ call.fn = "fetch_with_cloudflare_bypass"
    /\ call.pc = "returned" /\ ~call.success
    /\ call.sessions = max_retries
    /\ call.polls[2] = wait_rounds
    /\ call.slept = {0, 1}

\* the jobs of the memo that are scheduled or running
C34_ActiveJobs(memo_id) ==
    {j \in JobIds : jobs[j].memo_id = memo_id /\ jobs[j].pc \notin {"idle", "done"}}

\* C34: a reanalyze request without force is accepted (a job is scheduled
\* for the memo) only when no job of the memo is scheduled or running, the
\* time between the scheduling of a job and its write of 'analyzing' included
C34_UnforcedExclusive ==
    [][(/\ http'.op = "reanalyze" /\ ~http'.force /\ http'.code = 200
        /\ jobs' # jobs)
          => C34_ActiveJobs(http'.memo_id) = {}]_vars

\* C35: while the job scheduled last for the memo is scheduled or running,
\* the memo does not show the final status of a job scheduled before it: the
\* completion or failure of an earlier job does not overwrite what the
\* forced reanalyze and its job wrote
C35_LaterJobWins ==
    \A j \in JobIds :
        (/\ jobs[j].pc \notin {"idle", "done"}
         /\ \A k \in JobIds : k > j => jobs[k].pc = "idle")
            => db[jobs[j].memo_id].analysis_status \notin {"completed", "failed"}

\* the columns the commit of a failed run may change
C36_FailureFields == {"analysis_status", "analysis_error", "updated_at"}

C38_EveryRetryCountEnds ==
    (call.fn = "run_analysis" /\ call.pc \in {"returned", "escaped"})
        => /\ call.pc = "returned"
           /\ call.analysis_status \in {"completed", "failed"}
           /\ Len(call.complete) = 1

\* the chunks one after the other
RECURSIVE C39_Concat(_)
C39_Concat(chunks) ==
    IF chunks = <<>> THEN <<>> ELSE Head(chunks) \o C39_Concat(Tail(chunks))

\* the read position moves forward in every round of the loop, every chunk
\* has at most CHUNK_SIZE characters, and the chunks hold in order every
\* character of the text that is no whitespace
C39_Progress ==
    /\ ~Fits(call.text)
          => \A current_pos \in C31_Starts(call.text, 0) :
                LET end_pos == EndPos(call.text, current_pos)
                IN Max(end_pos - CHUNK_OVERLAP, end_pos) > current_pos
    /\ \A i \in 1 .. Len(call.chunks) : Len(call.chunks[i]) <= CHUNK_SIZE
    /\ C13_Within(C13_Content(call.text), C13_Content(C39_Concat(call.chunks)))

\* C39 as stated: the split ends, its position moves forward in every round,
\* every chunk is non-empty and at most CHUNK_SIZE long, and the chunks cover
\* the characters of the text that are no whitespace
C39_SplitTotal ==
    (call.fn = "_split_into_chunks" /\ call.pc # "split")
        => /\ C39_Progress
           /\ \A i \in 1 .. Len(call.chunks) : call.chunks[i] # <<>>

\* C39, amended: the same, with every chunk non-empty unless the text itself
\* is empty, which is returned as the only chunk
C39_SplitTotalNonEmptyText ==
    (call.fn = "_split_into_chunks" /\ call.pc # "split")
        => /\ C39_Progress
           /\ call.text # <<>>
                 => \A i \in 1 .. Len(call.chunks) : call.chunks[i] # <<>>
           /\ call.text = <<>> => call.chunks = << <<>> >>

\* a text longer than CHUNK_SIZE split into two chunks, with whitespace
\* between them that is in neither
C39_Witness ==
    /\ call.fn = "_split_into_chunks" /\ call.pc # "split"
    /\ Len(call.text) > CHUNK_SIZE
    /\ Len(call.chunks) = 2
    /\ Len(call.chunks[1]) + Len(call.chunks[2]) < Len(call.text)
    /\ C13_Content(call.text) = C13_Content(C39_Concat(call.chunks))

\* the events sent for the comment to the connected subscriber
C40_Events(c) ==
    {i \in 1 .. Len(sse_queues[OBSERVER]) :
        sse_queues[OBSERVER][i].parent_comment_id = c}

\* C40: when the AI-response task of a comment is over, the comment has left
\* 'pending': it is 'completed' with one AI reply stored or 'failed' with an
\* error recorded, and the one comment_ai_response event sent for it carries
\* the same status
C40_CommentLeavesPending ==
    call.fn = "create_comment"
        => \A c \in CommentIds :
             call.comments[c].pc = "done"
                => LET comment == call.comments[c]
                   IN /\ \/ /\ comment.response_status = "completed"
                            /\ comment.replies = 1
                         \/ /\ comment.response_status = "failed"
                            /\ comment.response_error # None
                      /\ Cardinality(C40_Events(c)) = 1
                      /\ \A i \in C40_Events(c) :
                            sse_queues[OBSERVER][i].status = comment.response_status
====
